---------------------------- MODULE Spec2Model ----------------------------
(***************************************************************************)
(* Model of the generation orchestration engine of ai-studio-backend-apis: *)
(* job initiation, the background tasks of app/services/video_tasks.py,    *)
(* the promo / fashion / ugc / remix / image flows of                      *)
(* app/services/orchestration_service.py and ugc_orchestration_service.py, *)
(* the QA loops, the moderation gate and the two pollers.                  *)
(*                                                                         *)
(* One request is followed from the endpoint to the end of its background  *)
(* task.  Every collaborator call is one step whose outcome (success,      *)
(* failure, returned value) is chosen nondeterministically.  Python        *)
(* exceptions are modelled by the position of the handler that catches     *)
(* them (pc) and the exception carried (exc).                              *)
(*                                                                         *)
(* Texts (prompts, messages, urls) are sequences of string tokens; None    *)
(* and the empty string are both the empty sequence (both are falsy).      *)
(***************************************************************************)
EXTENDS Integers, Sequences, FiniteSets, TLC

VARIABLES
    db,        \* persisted rows: job id -> row (only existing rows are in the domain)
    files,     \* local files written by the background task (paths)
    blobs,     \* objects uploaded to storage (<<bucket, path>>)
    writes,    \* every update_record call issued, in order, with whether it was applied
    calls,     \* every collaborator call made, in order
    pc,        \* position of the request / background task
    exc,       \* the exception being propagated or handled
    variant,   \* "none" before initiation, then promo|fashion|ugc|general|remix|image
    jobId,     \* id of the row created for the request
    reqIn,     \* the inputs of the initiating request
    resp,      \* what the initiating call answered
    loc,       \* local variables of the running flow
    other,     \* the job that is not running now: its calls, writes, pc, exc,
               \* variant, jobId, reqIn, resp and loc
    vp,        \* a run of poll_video_job (api/v1/endpoints/video.py)
    rr,        \* a run of request_with_retry (core/utils.py)
    bj         \* a run of _extract_balanced_json (core/utils.py)

vars == <<db, files, blobs, writes, calls, pc, exc, variant, jobId, reqIn, resp, loc, other,
          vp, rr, bj>>

\* the job pipeline, and the helper routines modelled on their own
jobs == <<db, files, blobs, writes, calls, pc, exc, variant, jobId, reqIn, resp, loc, other>>
helpers == <<vp, rr, bj>>

-----------------------------------------------------------------------------
(* Bounds of the model and configuration values *)

\* settings.POLL_MAX_MIN * 60, scaled down (seconds)
PollMaxWait == 3
\* settings.POLL_INTERVAL_SEC, scaled down (seconds)
PollIntervalSec == 1
\* the configurations of the poll interval: shorter than the maximal wait, and
\* equal to it
PollIntervals == {PollIntervalSec, PollMaxWait}
\* longest time one status request takes (seconds)
MaxStatusDur == 1

\* range(3) in _run_qa_loop
QaMaxAttempts == 3
\* the accept gate of _run_qa_loop
QaPassScore == 80
\* the accept gate of _run_ugc_qa_loop
UgcPassScore == 85

-----------------------------------------------------------------------------
(* Values *)

None == <<>>
Truthy(t) == t # None

JobIds == {"j1", "j2"}
\* the id the persistence backend assigns to the inserted row
NewId == CHOOSE id \in JobIds : id \notin DOMAIN db

VideoTypes == {"promo", "fashion", "ugc", "general"}
\* scores a rubric call can report
QaScores == {79, 80, 85}
\* a scoring call fails, answers without JSON, answers JSON that is no
\* object, answers an object without a score, or scores
QaResponses ==
    {[kind |-> k, score |-> 0] : k \in {"fail", "nojson", "nonobject", "noscore"}}
      \cup {[kind |-> "score", score |-> n] : n \in QaScores}
ModerationOutcomes == {"transport_error", "http_error", "malformed", "flagged", "clean"}
ModerationOutages == {"transport_error", "http_error", "malformed"}
\* what a status request gives: a status (any status other than completed and
\* failed keeps the loop going), a failed status with or without an error
\* field, or an exception
RemoteStatuses == {"in_progress", "completed", "failed", "failed_noerror", "raise"}

NoExc == [type |-> "none", msg |-> None]
MkExc(t, m) == [type |-> t, msg |-> m]
\* str(e)
Str(e) == e.msg

\* app/core/exceptions.py
AIServiceError(m) == MkExc("AIServiceError", m)
ModerationError(m) == MkExc("ModerationError", m)
DatabaseError(m) == MkExc("DatabaseError", m)
ValidationError(m) == MkExc("ValidationError", m)

Count(s, x) == Cardinality({k \in 1..Len(s) : s[k] = x})

\* the outputs of the generative rewrite calls
FixOf(p) == Append(p, "fixed")
SanitizeOf(p) == Append(p, "sanitized")

NoQa == [score |-> -1, hasScore |-> FALSE, of |-> None]

InitLoc ==
    [ i          |-> 0,       \* loop index of _run_qa_loop
      cur        |-> None,    \* current_prompt / the prompt under QA
      qaRes      |-> NoQa,    \* qa_res, with the prompt it is the scoring of
      qaOut      |-> None,    \* the prompt the QA loop returned
      final      |-> None,    \* final_prompt of the flow
      modOutcome |-> "none",  \* what the moderation request did
      flagged    |-> FALSE,   \* what moderation_check returned
      sanOut     |-> None,    \* what the sanitize call returned
      submitted  |-> None,    \* the prompt given to create_video_job / remix_video_job
      extJob     |-> None,    \* the external job id
      elapsed    |-> 0,       \* time.time() - start_time
      interval   |-> 0,       \* settings.POLL_INTERVAL_SEC of the running poller
      status     |-> "none",  \* what the last status request gave
      storageExc |-> NoExc,   \* the exception of a failed download / upload
      failedAt   |-> "none",  \* the generative call that raised
      failedExc  |-> NoExc,   \* and its exception
      qaKind     |-> "none",  \* what the last scoring call answered
      remoteErr  |-> None,    \* status_data["error"]
      storageUrl |-> None,
      title      |-> None,
      qaValid    |-> FALSE,   \* ugc: the image analysis audit approved
      analyses   |-> 0,       \* ugc: product_data revisions
      flows      |-> <<>>,    \* the flows process_video_task has entered
      feedback   |-> None,    \* ugc: qa_feedback of the audit
      productData |-> None,   \* ugc: product_data
      realism    |-> "none",  \* ugc: the detection found real | flagged, or failed
      guidelines |-> None,    \* ugc: realism_guidelines
      masterIn   |-> None,    \* ugc: product_data and guidelines given to the master agent
      imageUrl   |-> None ]   \* image flow: url returned by the provider

-----------------------------------------------------------------------------
(* PersistenceGateway: app/services/database_service.py *)

VideoFields == {"status", "title", "image_url", "user_content", "user_id",
                "video_url", "video_prompt", "error_message"}
ImageFields == {"status", "title", "ref_image_url", "user_content", "user_id",
                "image_url", "image_prompt", "error_message"}

\* the row an insert creates: the given columns, NULL elsewhere
NewRow(fields, data) ==
    [f \in fields |-> IF f \in DOMAIN data THEN data[f] ELSE None]

\* the row after update(data)
Merge(row, data) ==
    [f \in DOMAIN row \cup DOMAIN data |-> IF f \in DOMAIN data THEN data[f] ELSE row[f]]

\* {k: v for k, v in data.items() if v is not None}
\* (status is always a non-empty string)
DropNone(data) ==
    [f \in {g \in DOMAIN data : g = "status" \/ data[g] # None} |-> data[f]]

IsTerminalStatus(s) == s \in {"completed", "failed"}
IsTerminalUpdate(w) == "status" \in DOMAIN w.data /\ IsTerminalStatus(w.data.status)

\* update_record raises DatabaseError("Database error: ...") whatever went wrong
UpdateError == DatabaseError(<<"Database error: ", "update failed">>)


\* db_service.update_record(table, id, data): applied and returned, or not
\* applied and raised
UpdateRecord(table, id, data, ok, okPc, failPc) ==
    /\ writes' = Append(writes, [table |-> table, id |-> id, data |-> data,
                                 applied |-> (ok /\ id \in DOMAIN db)])
    /\ calls' = Append(calls, "update_record")
    /\ IF ok /\ id \in DOMAIN db
         THEN /\ db' = [db EXCEPT ![id] = Merge(@, data)]
              /\ pc' = okPc
              /\ exc' = NoExc
         ELSE /\ db' = db
              /\ pc' = failPc
              /\ exc' = UpdateError

FailedDataResetsTitle(e) ==
    [status |-> "failed", error_message |-> Str(e), title |-> <<"Failed">>]
FailedData(e) == [status |-> "failed", error_message |-> Str(e)]

-----------------------------------------------------------------------------
\* a request that has not been made yet
IdleJob ==
    [writes |-> <<>>, calls |-> <<>>, pc |-> "idle", exc |-> NoExc, variant |-> "none",
     jobId |-> "none", reqIn |-> [b64 |-> None, url |-> None, dl |-> "none"],
     resp |-> "none", loc |-> InitLoc]

\* no run of poll_video_job, request_with_retry, _extract_balanced_json
VpIdle == [pc |-> "idle", elapsed |-> 0, outcomes |-> <<>>, result |-> "none"]
RrIdle == [pc |-> "idle", max_retries |-> 0, i |-> 0, attempts |-> <<>>, sleeps |-> <<>>,
           result |-> "none"]
BjIdle == [pc |-> "idle", text |-> <<>>, start_index |-> 0, i |-> 0, brace_count |-> 0,
           in_string |-> FALSE, escape |-> FALSE, result |-> <<>>]

NoJob ==
    /\ db = [id \in {} |-> None]
    /\ files = {}
    /\ blobs = {}
    /\ writes = <<>>
    /\ calls = <<>>
    /\ pc = "idle"
    /\ exc = NoExc
    /\ variant = "none"
    /\ jobId = "none"
    /\ reqIn = [b64 |-> None, url |-> None, dl |-> "none"]
    /\ resp = "none"
    /\ loc = InitLoc
    /\ other = IdleJob

Init ==
    /\ NoJob
    /\ vp = VpIdle
    /\ rr = RrIdle
    /\ bj = BjIdle


-----------------------------------------------------------------------------
(* Helpers of the step definitions *)

Call(name) == calls' = Append(calls, name)
Raise(e, handler) == pc' = handler /\ exc' = e
Goto(p) == pc' = p /\ exc' = NoExc
\* the locals after the call "name" raised e
FailedAt(l, name, e) == [l EXCEPT !.failedAt = name, !.failedExc = e]

store == <<db, files, blobs, writes>>
request == <<variant, jobId, reqIn, resp>>

UserContent == <<"user content">>
\* openai_service.chat_completion raises AIServiceError on any failure
ChatError == AIServiceError(<<"OpenAI service error: ", "upstream">>)
VisionError == AIServiceError(<<"OpenAI vision service error: ", "upstream">>)
\* extract_json_from_text raises ValidationError when nothing parses
JsonError == ValidationError(<<"No valid JSON found in response: ", "expecting value">>)
\* qa_res.get on a JSON value that is no object
NotAnObject == MkExc("AttributeError", <<"'list' object has no attribute 'get'">>)

\* extract_json_from_text(qa_res_str) followed by qa_res.get("score", 0): the
\* exception raised for a response of this kind, NoExc when a score is obtained
\* (the score of the object, or the default 0)
JsonOutcomeLenient(kind) == NoExc
JsonOutcome(kind) ==
    CASE kind = "nojson"    -> JsonError
      [] kind = "nonobject" -> NotAnObject
      [] OTHER              -> NoExc

\* one chat_completion call of a flow: on success continue at next with loc
\* changed to newLoc, on failure raise into the flow's handler
ChatCall(name, ok, next, newLoc, handler) ==
    /\ Call(name)
    /\ IF ok THEN Goto(next) /\ loc' = newLoc
             ELSE Raise(ChatError, handler) /\ loc' = FailedAt(loc, name, ChatError)
    /\ UNCHANGED <<store, request>>

-----------------------------------------------------------------------------
(* Initiation: the endpoints of app/api/v1/endpoints and the initiate_*      *)
(* methods they call.  The endpoint adds the background task only when the   *)
(* initiate call returned.                                                   *)

\* video_type.capitalize() + " Video"
VideoTitle(vt) ==
    CASE vt = "promo"   -> <<"Promo Video">>
      [] vt = "fashion" -> <<"Fashion Video">>
      [] vt = "ugc"     -> <<"Ugc Video">>
      [] vt = "general" -> <<"General Video">>

\* "if not image_b64: raise ValidationError": an image is required
ImageMissingNoCheck(image_b64) == FALSE
ImageMissing(image_b64) == ~Truthy(image_b64)

\* insert_record raises DatabaseError, which leaves the initiate_* method and
\* the endpoint: no job id is returned and no background task is added
InsertFailureIgnored == "task_start"
InsertFailure == "rejected"

InitiateVideo(vt, b64, url, dl, ins) ==
    /\ pc = "idle"
    /\ LET needDl    == ~Truthy(b64) /\ Truthy(url)
           image_b64 == IF needDl
                          THEN (IF dl = "bytes" THEN <<"b64 of fetched image">> ELSE None)
                          ELSE b64
           row       == NewRow(VideoFields,
                               DropNone([title |-> VideoTitle(vt), image_url |-> url,
                                         user_content |-> UserContent,
                                         status |-> "pending", user_id |-> None]))
       IN
       /\ dl \in (IF needDl THEN {"fail", "empty", "bytes"} ELSE {"none"})
       /\ reqIn' = [b64 |-> b64, url |-> url, dl |-> dl]
       /\ variant' = vt
       /\ IF needDl /\ dl = "fail"
            THEN /\ Call("download_image")
                 /\ Raise(ValidationError(<<"Failed to download image: ", "request failed">>),
                          "rejected")
                 /\ resp' = "ValidationError"
                 /\ UNCHANGED <<db, jobId, loc>>
          ELSE IF ImageMissing(image_b64)
            THEN /\ calls' = (IF needDl THEN Append(calls, "download_image") ELSE calls)
                 /\ Raise(ValidationError(<<"Reference image must be provided either as base64 or URL">>),
                          "rejected")
                 /\ resp' = "ValidationError"
                 /\ UNCHANGED <<db, jobId, loc>>
          ELSE IF ~ins
            THEN /\ calls' = (IF needDl THEN <<"download_image", "insert_record">>
                                        ELSE <<"insert_record">>)
                 /\ Raise(DatabaseError(<<"Database error: ", "insert failed">>), InsertFailure)
                 /\ resp' = "DatabaseError"
                 /\ UNCHANGED <<db, jobId, loc>>
          ELSE   /\ calls' = (IF needDl THEN <<"download_image", "insert_record">>
                                        ELSE <<"insert_record">>)
                 /\ db' = (NewId :> row) @@ db
                 /\ jobId' = NewId
                 /\ resp' = "pending"
                 /\ Goto("task_start")
                 /\ loc' = loc
    /\ UNCHANGED <<files, blobs, writes>>
    /\ UNCHANGED <<other, helpers>>

\* initiate_video_remix and the /remix-video endpoint; existing is the row the
\* lookup of video_id found, if any (its image_url is copied)
InitiateRemix(existingUrl, ins) ==
    /\ pc = "idle"
    /\ LET row == NewRow(VideoFields,
                         DropNone([title |-> <<"Remixed Video">>,
                                   user_content |-> <<"remix prompt">>,
                                   status |-> "pending", user_id |-> None,
                                   image_url |-> existingUrl]))
       IN
       /\ variant' = "remix"
       /\ reqIn' = [b64 |-> None, url |-> existingUrl, dl |-> "none"]
       /\ Call("insert_record")
       /\ IF ins
            THEN /\ db' = (NewId :> row) @@ db
                 /\ jobId' = NewId
                 /\ resp' = "pending"
                 /\ Goto("remix_start")
            ELSE /\ Raise(DatabaseError(<<"Database error: ", "insert failed">>), InsertFailure)
                 /\ resp' = "DatabaseError"
                 /\ UNCHANGED <<db, jobId>>
    /\ UNCHANGED <<files, blobs, writes, loc>>
    /\ UNCHANGED <<other, helpers>>

\* initiate_image_generation and the /refine endpoint
InitiateImage(ins) ==
    /\ pc = "idle"
    /\ LET row == NewRow(ImageFields,
                         DropNone([title |-> <<"Generated Image">>,
                                   ref_image_url |-> <<"image link">>,
                                   user_content |-> UserContent,
                                   status |-> "pending", user_id |-> None]))
       IN
       /\ variant' = "image"
       /\ reqIn' = [b64 |-> None, url |-> <<"image link">>, dl |-> "none"]
       /\ Call("insert_record")
       /\ IF ins
            THEN /\ db' = (NewId :> row) @@ db
                 /\ jobId' = NewId
                 /\ resp' = "pending"
                 /\ Goto("image_start")
            ELSE /\ Raise(DatabaseError(<<"Database error: ", "insert failed">>), InsertFailure)
                 /\ resp' = "DatabaseError"
                 /\ UNCHANGED <<db, jobId>>
    /\ UNCHANGED <<files, blobs, writes, loc>>
    /\ UNCHANGED <<other, helpers>>

-----------------------------------------------------------------------------
(* Background tasks: app/services/video_tasks.py *)

\* the attribute lookup orchestrator.run_general_orchestration_flow fails:
\* OrchestrationService defines no such method
NoGeneralFlow ==
    MkExc("AttributeError",
          <<"'OrchestrationService' object has no attribute 'run_general_orchestration_flow'">>)

\* the if / elif chain of process_video_task: the flow a video_type selects
Dispatch(video_type) ==
    CASE video_type = "fashion" -> "fashion"
      [] video_type = "ugc"     -> "ugc"
      [] video_type = "general" -> "general"
      [] OTHER                  -> "promo"

\* the run_*_orchestration_flow methods the orchestrators define
DefinedFlows == {"promo", "fashion", "ugc"}

\* the first step of a flow
FlowEntry(flow) == IF flow = "ugc" THEN "ugc_analysis" ELSE "concept"

\* process_video_task: the dispatch on video_type
ProcessVideoTask ==
    /\ pc = "task_start"
    /\ IF Dispatch(variant) \in DefinedFlows
         THEN /\ Goto(FlowEntry(Dispatch(variant)))
              /\ loc' = [loc EXCEPT !.flows = Append(@, Dispatch(variant))]
         ELSE /\ Raise(NoGeneralFlow, "task_except")
              /\ loc' = loc
    /\ UNCHANGED <<store, calls, request>>
    /\ UNCHANGED <<other, helpers>>

\* process_remix_task calling run_remix_orchestration_flow
ProcessRemixTask ==
    /\ pc = "remix_start"
    /\ Goto("remix_moderation")
    /\ loc' = [loc EXCEPT !.final = <<"remix prompt">>, !.qaOut = <<"remix prompt">>]
    /\ UNCHANGED <<store, calls, request>>
    /\ UNCHANGED <<other, helpers>>

\* process_image_task calling run_image_orchestration_flow
ProcessImageTask ==
    /\ pc = "image_start"
    /\ Goto("img_reassert")
    /\ UNCHANGED <<store, calls, request, loc>>
    /\ UNCHANGED <<other, helpers>>

\* "except Exception" of the run_*_orchestration_flow methods: one failed
\* update with str(e); an exception of that update leaves the method
FlowExcept(ok) ==
    /\ pc = "flow_except"
    /\ UpdateRecord("video_assets", jobId, FailedData(exc), ok, "done", "task_except")
    /\ UNCHANGED <<files, blobs, request, loc>>
    /\ UNCHANGED <<other, helpers>>

\* "except Exception" of process_video_task / process_remix_task: one failed
\* update with str(e); an exception of that update leaves the background task
TaskExcept(ok) ==
    /\ pc = "task_except"
    /\ UpdateRecord("video_assets", jobId, FailedData(exc), ok, "done", "crashed")
    /\ UNCHANGED <<files, blobs, request, loc>>
    /\ UNCHANGED <<other, helpers>>


-----------------------------------------------------------------------------
(* Promo and fashion flows: run_promo_orchestration_flow and                 *)
(* run_fashion_orchestration_flow.  The two methods differ only in the       *)
(* agent prompts, so one set of steps stands for both; variant tells them    *)
(* apart.                                                                    *)

\* where the exception of a pipeline stage goes: the stages are called inside
\* the try of the flow, whose "except Exception" catches it
StageFailureSwallowed == "moderation"
StageFailure == "flow_except"

\* the statement after the QA loop: the moderation check
AfterQaSkipsModeration == "submit"
AfterQa == "moderation"

\* _run_promo_concept_agent / _run_fashion_concept_agent
ConceptAgent(ok) ==
    /\ pc = "concept"
    /\ ChatCall("concept", ok, "visual", loc, StageFailure)
    /\ UNCHANGED <<other, helpers>>

\* _run_promo_visual_agent / _run_fashion_visual_agent
VisualAgent(ok) ==
    /\ pc = "visual"
    /\ ChatCall("visual", ok, "audio", loc, StageFailure)
    /\ UNCHANGED <<other, helpers>>

\* _run_promo_audio_agent / _run_fashion_audio_agent
AudioAgent(ok) ==
    /\ pc = "audio"
    /\ ChatCall("audio", ok, "assembly", loc, StageFailure)
    /\ UNCHANGED <<other, helpers>>

\* _run_promo_assembly_agent / _run_fashion_assembly_agent, then the entry of
\* _run_qa_loop: current_prompt = initial_prompt
AssemblyAgent(ok) ==
    /\ pc = "assembly"
    /\ ChatCall("assembly", ok, "qa_score",
             [loc EXCEPT !.cur = <<"assembled prompt">>, !.i = 0], StageFailure)
    /\ UNCHANGED <<other, helpers>>

\* "if score >= 80"
QaPassesStrict(score) == score > QaPassScore
QaPasses(score) == score >= QaPassScore

\* "if i < 2": a correction is made unless this was the last attempt
QaMayFixOffByOne(i) == i < 3
QaMayFix(i) == i < 2

\* the end of one iteration of "for i in range(3)": the next attempt, or the
\* return after the loop with the current prompt and the last qa_res
QaLoopStopsEarly(i) == i + 1 < QaMaxAttempts - 1
QaLoopContinues(i) == i + 1 < QaMaxAttempts

QaNextIteration(i, newLoc) ==
    IF QaLoopContinues(i)
      THEN Goto("qa_score") /\ loc' = [newLoc EXCEPT !.i = i + 1]
      ELSE Goto(AfterQa)
           /\ loc' = [newLoc EXCEPT !.i = i + 1, !.qaOut = newLoc.cur, !.final = newLoc.cur]

\* _run_qa_loop: one scoring call, extract_json_from_text and the score test
QaScore(r) ==
    /\ pc = "qa_score"
    /\ Call("qa_score")
    /\ CASE r.kind = "fail" ->
              Raise(ChatError, "flow_except")
              /\ loc' = [FailedAt(loc, "qa_score", ChatError) EXCEPT !.qaKind = r.kind]
         [] r.kind # "fail" /\ JsonOutcome(r.kind) # NoExc ->
              Raise(JsonOutcome(r.kind), "flow_except")
              /\ loc' = [FailedAt(loc, "qa_score", JsonOutcome(r.kind)) EXCEPT !.qaKind = r.kind]
         [] OTHER ->
              LET score == IF r.kind = "score" THEN r.score ELSE 0
                  res   == [score |-> score, hasScore |-> r.kind = "score", of |-> loc.cur]
                  scored == [loc EXCEPT !.qaRes = res, !.qaKind = r.kind]
              IN IF QaPasses(score)
                   THEN Goto(AfterQa)
                        /\ loc' = [scored EXCEPT !.qaOut = loc.cur, !.final = loc.cur]
                 ELSE IF QaMayFix(loc.i)
                   THEN Goto("qa_fix") /\ loc' = scored
                 ELSE QaNextIteration(loc.i, scored)
    /\ UNCHANGED <<store, request>>
    /\ UNCHANGED <<other, helpers>>

\* _run_qa_loop: the correction call of a failed attempt
QaFix(ok) ==
    /\ pc = "qa_fix"
    /\ Call("qa_fix")
    /\ IF ok THEN QaNextIteration(loc.i, [loc EXCEPT !.cur = FixOf(loc.cur)])
             ELSE Raise(ChatError, "flow_except") /\ loc' = FailedAt(loc, "qa_fix", ChatError)
    /\ UNCHANGED <<store, request>>
    /\ UNCHANGED <<other, helpers>>

-----------------------------------------------------------------------------
(* Moderation gate and submission (promo, fashion and ugc flows) *)

\* OpenAIService.moderation_check: data["results"][0]["flagged"], and False
\* whenever the request, its status or its body fails
ModerationCheckFailClosed(outcome) == outcome # "clean"
ModerationCheck(outcome) == outcome = "flagged"

\* "if openai_service.moderation_check(final_prompt): sanitize, else proceed"
ModerationGateNoSanitize(isFlagged) == "submit"
ModerationGate(isFlagged) == IF isFlagged THEN "sanitize" ELSE "submit"

Moderation(o) ==
    /\ pc = "moderation"
    /\ Call("moderation_check")
    /\ Goto(ModerationGate(ModerationCheck(o)))
    /\ loc' = [loc EXCEPT !.modOutcome = o, !.flagged = ModerationCheck(o)]
    /\ UNCHANGED <<store, request>>
    /\ UNCHANGED <<other, helpers>>

\* _sanitize_prompt
Sanitize(ok) ==
    /\ pc = "sanitize"
    /\ ChatCall("sanitize", ok, "submit",
             [loc EXCEPT !.final = SanitizeOf(loc.final), !.sanOut = SanitizeOf(loc.final)],
             "flow_except")
    /\ UNCHANGED <<other, helpers>>

\* process_and_resize_image, openai_service.create_video_job, and the entry of
\* poll_and_save_video (start_time = time.time())
Submit(o, n) ==
    /\ pc = "submit"
    /\ CASE o = "image_error" ->
              /\ Call("process_image")
              /\ Raise(ValidationError(<<"Failed to process image: ", "cannot identify image">>),
                       "flow_except")
              /\ loc' = loc
         [] o = "create_error" ->
              /\ calls' = calls \o <<"process_image", "create_video_job">>
              /\ Raise(AIServiceError(<<"OpenAI video service error: ", "upstream">>),
                       "flow_except")
              /\ loc' = [loc EXCEPT !.submitted = loc.final]
         [] o = "ok" ->
              /\ calls' = calls \o <<"process_image", "create_video_job">>
              /\ Goto("poll_check")
              /\ loc' = [loc EXCEPT !.submitted = loc.final, !.extJob = <<"video job">>,
                                    !.elapsed = 0, !.interval = n]
    /\ UNCHANGED <<store, request>>
    /\ UNCHANGED <<other, helpers>>


-----------------------------------------------------------------------------
(* JobPoller: OrchestrationService.poll_and_save_video *)

\* the "return" that follows a terminal update inside the polling loop
PollAfterWriteNoReturn == "poll_sleep"
PollAfterWrite == "done"

StatusError == AIServiceError(<<"OpenAI video status check failed: ", "upstream">>)
DownloadError == AIServiceError(<<"OpenAI video download failed: ", "upstream">>)
UploadError == DatabaseError(<<"Storage upload error: ", "upstream">>)

\* "while time.time() - start_time < max_wait"
PollMayStartAtBound(elapsed) == elapsed <= PollMaxWait
PollMayStart(elapsed) == elapsed < PollMaxWait

PollCheck ==
    /\ pc = "poll_check"
    /\ IF PollMayStart(loc.elapsed) THEN Goto("poll_status") ELSE Goto("write_timeout")
    /\ UNCHANGED <<store, calls, request, loc>>
    /\ UNCHANGED <<other, helpers>>

\* openai_service.get_video_job_status and the branch on its status; the
\* request takes d seconds
PollStatus(st, d) ==
    /\ pc = "poll_status"
    /\ Call("get_video_job_status")
    /\ LET timed == [loc EXCEPT !.elapsed = @ + d, !.status = st]
       IN CASE st = "raise" -> Raise(StatusError, "poll_except") /\ loc' = timed
            [] st = "completed" -> Goto("download") /\ loc' = timed
            [] st = "failed" ->
                 Goto("write_remote_failed")
                 /\ loc' = [timed EXCEPT !.remoteErr = <<"quota_exceeded">>]
            [] st = "failed_noerror" ->
                 Goto("write_remote_failed")
                 /\ loc' = [timed EXCEPT !.remoteErr = <<"Unknown error">>]
            [] OTHER -> Goto("poll_sleep") /\ loc' = timed
    /\ UNCHANGED <<store, request>>
    /\ UNCHANGED <<other, helpers>>

\* time.sleep(self.settings.POLL_INTERVAL_SEC)
PollSleep ==
    /\ pc = "poll_sleep"
    /\ Goto("poll_check")
    /\ loc' = [loc EXCEPT !.elapsed = @ + loc.interval]
    /\ UNCHANGED <<store, calls, request>>
    /\ UNCHANGED <<other, helpers>>

\* openai_service.download_video_content
Download(ok) ==
    /\ pc = "download"
    /\ Call("download_video_content")
    /\ IF ok THEN Goto("upload") /\ loc' = loc
             ELSE Raise(DownloadError, "poll_inner_except")
                  /\ loc' = [loc EXCEPT !.storageExc = DownloadError]
    /\ UNCHANGED <<store, request>>
    /\ UNCHANGED <<other, helpers>>

\* db_service.upload_file(bucket "ai_videos", path "<id>.mp4")
\* file_path = f"{video_db_id}.mp4" in bucket "ai_videos"
VideoBlobShared(job_id) == <<"ai_videos", <<"video", ".mp4">> >>
VideoBlob(job_id) == <<"ai_videos", <<job_id, ".mp4">> >>

Upload(ok) ==
    /\ pc = "upload"
    /\ Call("upload_file")
    /\ IF ok
         THEN /\ blobs' = blobs \cup {VideoBlob(jobId)}
              /\ Goto("title")
              /\ loc' = [loc EXCEPT !.storageUrl = <<"ai_videos", jobId, ".mp4">>]
         ELSE /\ Raise(UploadError, "poll_inner_except")
              /\ loc' = [loc EXCEPT !.storageExc = UploadError]
              /\ blobs' = blobs
    /\ UNCHANGED <<db, files, writes, request>>
    /\ UNCHANGED <<other, helpers>>

\* "except Exception as title_err": the handler of the try around the title
\* call, after which the flow goes on to the final update
TitleHandlerMissing == "poll_inner_except"
TitleHandler == "write_completed"

DefaultTitle == <<"Generated Video">>

\* _generate_creative_title inside its own try: a failure gives the default
Title(ok) ==
    /\ pc = "title"
    /\ Call("generate_title")
    /\ IF ok
         THEN Goto("write_completed") /\ loc' = [loc EXCEPT !.title = <<"catchy title">>]
         ELSE /\ pc' = TitleHandler
              /\ exc' = (IF TitleHandler = "write_completed" THEN NoExc ELSE ChatError)
              /\ loc' = [loc EXCEPT !.title = DefaultTitle]
    /\ UNCHANGED <<store, request>>
    /\ UNCHANGED <<other, helpers>>

\* the video_prompt argument of poll_and_save_video / poll_and_save_remix: the
\* flow passes the prompt it has just submitted
PolledPromptUnsanitized(l) == l.qaOut
PolledPrompt(l) == l.final

\* the data of the final update of the completed branch
CompletedDataNoPrompt(storage_url, video_prompt, title) ==
    [status |-> "completed", video_url |-> storage_url, title |-> title]
CompletedData(storage_url, video_prompt, title) ==
    [status |-> "completed", video_url |-> storage_url,
     video_prompt |-> video_prompt, title |-> title]

\* the final update of the completed branch, and the return after it
WriteCompleted(ok) ==
    /\ pc = "write_completed"
    /\ UpdateRecord("video_assets", jobId,
                    CompletedData(loc.storageUrl, PolledPrompt(loc), loc.title),
                    ok, PollAfterWrite, "poll_inner_except")
    /\ UNCHANGED <<files, blobs, request, loc>>
    /\ UNCHANGED <<other, helpers>>

\* the data of the update of "except Exception as download_err"
StorageFailedDataNoCause(download_err) ==
    [status |-> "failed", error_message |-> <<"Video storage failed">>]
StorageFailedData(download_err) ==
    [status |-> "failed",
     error_message |-> <<"Video storage failed: ">> \o Str(download_err)]

\* the "return" that ends the completed branch, reached from the except clause
PollAfterStorageFailureNoReturn == "poll_sleep"
PollAfterStorageFailure == "done"

\* "except Exception as download_err" of the completed branch
PollInnerExcept(ok) ==
    /\ pc = "poll_inner_except"
    /\ UpdateRecord("video_assets", jobId, StorageFailedData(exc),
                    ok, PollAfterStorageFailure, "poll_except")
    /\ UNCHANGED <<files, blobs, request, loc>>
    /\ UNCHANGED <<other, helpers>>

\* the data of the update of the branch status == "failed"
RemoteFailedDataWrapped(error, video_prompt) ==
    [status |-> "failed", error_message |-> <<"OpenAI job failed: ">> \o error,
     video_prompt |-> video_prompt]
RemoteFailedData(error, video_prompt) ==
    [status |-> "failed", error_message |-> error, video_prompt |-> video_prompt]

\* the branch status == "failed"
WriteRemoteFailed(ok) ==
    /\ pc = "write_remote_failed"
    /\ UpdateRecord("video_assets", jobId, RemoteFailedData(loc.remoteErr, PolledPrompt(loc)),
                    ok, PollAfterWrite, "poll_except")
    /\ UNCHANGED <<files, blobs, request, loc>>
    /\ UNCHANGED <<other, helpers>>

TimeoutData == [status |-> "failed", error_message |-> <<"Timed out">>]

\* after the loop: "Timed out"
WriteTimeout(ok) ==
    /\ pc = "write_timeout"
    /\ UpdateRecord("video_assets", jobId, TimeoutData, ok, "done", "poll_except")
    /\ UNCHANGED <<files, blobs, request, loc>>
    /\ UNCHANGED <<other, helpers>>

\* the outer "except Exception" of poll_and_save_video
PollExcept(ok) ==
    /\ pc = "poll_except"
    /\ UpdateRecord("video_assets", jobId, FailedData(exc), ok, "done", "flow_except")
    /\ UNCHANGED <<files, blobs, request, loc>>
    /\ UNCHANGED <<other, helpers>>

-----------------------------------------------------------------------------
(* Ugc flow: UgcOrchestrationService.run_ugc_orchestration_flow *)

\* what _run_image_analysis_agent returns for the given feedback
ProductData(feedback) ==
    IF Truthy(feedback) THEN <<"product data", "revised for">> \o feedback
                        ELSE <<"product data">>

\* qa_res.get("feedback") of the audit's answer
AuditFeedback(r) ==
    CASE r = "approved" -> <<"passed">>
      [] r = "rejected" -> <<"label text is wrong">>
      [] OTHER          -> None

\* "if not qa_valid": the self-correction, else Step 3
AuditGateNeverCorrects(qa_valid) == "ugc_realism"
AuditGate(qa_valid) == IF qa_valid THEN "ugc_realism" ELSE "ugc_reanalysis"

\* the statement after the self-correction: Step 3, without a second audit
AfterReanalysisAuditsAgain == "ugc_analysis_qa"
AfterReanalysis == "ugc_realism"

\* _run_image_analysis_agent: a vision call and extract_json_from_text
UgcAnalysis(r) ==
    /\ pc = "ugc_analysis"
    /\ Call("image_analysis")
    /\ CASE r = "fail"   -> Raise(VisionError, StageFailure)
                            /\ loc' = FailedAt(loc, "image_analysis", VisionError)
         [] r = "nojson" -> Raise(JsonError, StageFailure)
                            /\ loc' = FailedAt(loc, "image_analysis", JsonError)
         [] OTHER        -> Goto("ugc_analysis_qa")
                            /\ loc' = [loc EXCEPT !.analyses = 1,
                                                  !.productData = ProductData(None)]
    /\ UNCHANGED <<store, request>>
    /\ UNCHANGED <<other, helpers>>

\* _run_image_analysis_qa_agent and "if not qa_valid"; qa_res.get("approved",
\* False) is False when the verdict is missing
UgcAnalysisQa(r) ==
    /\ pc = "ugc_analysis_qa"
    /\ Call("image_analysis_qa")
    /\ CASE r = "fail"     -> Raise(VisionError, "flow_except")
                              /\ loc' = FailedAt(loc, "image_analysis_qa", VisionError)
         [] r = "nojson"   -> Raise(JsonError, "flow_except")
                              /\ loc' = FailedAt(loc, "image_analysis_qa", JsonError)
         [] OTHER          -> Goto(AuditGate(r = "approved"))
                              /\ loc' = [loc EXCEPT !.qaValid = (r = "approved"),
                                                    !.feedback = AuditFeedback(r)]
    /\ UNCHANGED <<store, request>>
    /\ UNCHANGED <<other, helpers>>

\* the self-correction: _run_image_analysis_agent with the audit feedback
UgcReanalysis(r) ==
    /\ pc = "ugc_reanalysis"
    /\ Call("image_analysis")
    /\ CASE r = "fail"   -> Raise(VisionError, StageFailure)
                            /\ loc' = FailedAt(loc, "image_analysis", VisionError)
         [] r = "nojson" -> Raise(JsonError, StageFailure)
                            /\ loc' = FailedAt(loc, "image_analysis", JsonError)
         [] OTHER        -> Goto(AfterReanalysis)
                            /\ loc' = [loc EXCEPT !.analyses = @ + 1,
                                                  !.productData = ProductData(loc.feedback)]
    /\ UNCHANGED <<store, request>>
    /\ UNCHANGED <<other, helpers>>

\* _check_video_realism: the detection call is inside its own try and the
\* same guideline text is returned in every case
RealismGuidelines == <<"HIGH-FIDELITY REALISM & CINEMATIC STANDARDS">>

\* what the detection call can do: answer real or AI-generated, raise, answer
\* without JSON, or answer JSON that is no object
RealismOutcomes == {"real", "ai_generated", "fail", "nojson", "nonobject"}

\* the exception of the detection call or of reading its answer, if any
RealismError(r) ==
    CASE r = "fail" -> VisionError
      [] r \in {"nojson", "nonobject"} -> JsonOutcome(r)
      [] OTHER -> NoExc

\* what _check_video_realism saw: a real image, a flagged one, a failure
RealismSeen(r) ==
    CASE r = "real"         -> "real"
      [] r = "ai_generated" -> "flagged"
      [] OTHER              -> "failed"

\* "except Exception as e: self.log_error(...)": the method goes on to its
\* return statement
RealismHandlerMissing == "flow_except"
RealismHandler == "ugc_master"

UgcRealism(r) ==
    /\ pc = "ugc_realism"
    /\ Call("realism_check")
    /\ IF RealismError(r) # NoExc
         THEN /\ pc' = RealismHandler
              /\ exc' = (IF RealismHandler = "ugc_master" THEN NoExc ELSE RealismError(r))
              /\ loc' = [loc EXCEPT !.realism = RealismSeen(r),
                                    !.guidelines = IF RealismHandler = "ugc_master"
                                                     THEN RealismGuidelines ELSE None]
         ELSE /\ Goto("ugc_master")
              /\ loc' = [loc EXCEPT !.realism = RealismSeen(r), !.guidelines = RealismGuidelines]
    /\ UNCHANGED <<store, request>>
    /\ UNCHANGED <<other, helpers>>

\* _run_ugc_master_agent
UgcMaster(ok) ==
    /\ pc = "ugc_master"
    /\ ChatCall("ugc_master", ok, "ugc_qa_score",
                [loc EXCEPT !.cur = <<"ugc master prompt">>,
                            !.masterIn = <<loc.productData, loc.guidelines>>], StageFailure)
    /\ UNCHANGED <<other, helpers>>

\* "if score >= 85"
UgcQaPassesAtPromoGate(score) == score >= QaPassScore
UgcQaPasses(score) == score >= UgcPassScore

\* _run_ugc_qa_loop: the single scoring call and the score test
UgcQaScore(r) ==
    /\ pc = "ugc_qa_score"
    /\ Call("qa_score")
    /\ CASE r.kind = "fail" ->
              Raise(ChatError, "flow_except")
              /\ loc' = [FailedAt(loc, "qa_score", ChatError) EXCEPT !.qaKind = r.kind]
         [] r.kind # "fail" /\ JsonOutcome(r.kind) # NoExc ->
              Raise(JsonOutcome(r.kind), "flow_except")
              /\ loc' = [FailedAt(loc, "qa_score", JsonOutcome(r.kind)) EXCEPT !.qaKind = r.kind]
         [] OTHER ->
              LET score == IF r.kind = "score" THEN r.score ELSE 0
                  res   == [score |-> score, hasScore |-> r.kind = "score", of |-> loc.cur]
                  scored == [loc EXCEPT !.qaRes = res, !.qaKind = r.kind]
              IN IF UgcQaPasses(score)
                   THEN Goto(AfterQa)
                        /\ loc' = [scored EXCEPT !.qaOut = loc.cur, !.final = loc.cur]
                   ELSE Goto("ugc_qa_fix") /\ loc' = scored
    /\ UNCHANGED <<store, request>>
    /\ UNCHANGED <<other, helpers>>

\* _run_ugc_qa_loop: the one-shot improvement, returned without a new score
UgcQaFix(ok) ==
    /\ pc = "ugc_qa_fix"
    /\ ChatCall("qa_fix", ok, AfterQa,
                [loc EXCEPT !.qaOut = FixOf(loc.cur), !.final = FixOf(loc.cur)],
                "flow_except")
    /\ UNCHANGED <<other, helpers>>

-----------------------------------------------------------------------------
(* Remix flow: run_remix_orchestration_flow and poll_and_save_remix *)

\* "if openai_service.moderation_check(prompt): raise ModerationError(...)"
RemixGateProceed(isFlagged) == "remix_submit"
RemixGate(isFlagged) == IF isFlagged THEN "flow_except" ELSE "remix_submit"

RemixModeration(o) ==
    /\ pc = "remix_moderation"
    /\ Call("moderation_check")
    /\ IF RemixGate(ModerationCheck(o)) = "flow_except"
         THEN Raise(ModerationError(<<"Remix prompt flagged by moderation">>), "flow_except")
         ELSE Goto(RemixGate(ModerationCheck(o)))
    /\ loc' = [loc EXCEPT !.modOutcome = o, !.flagged = ModerationCheck(o)]
    /\ UNCHANGED <<store, request>>
    /\ UNCHANGED <<other, helpers>>

\* openai_service.remix_video_job and the entry of poll_and_save_remix
RemixSubmit(ok, n) ==
    /\ pc = "remix_submit"
    /\ Call("remix_video_job")
    /\ IF ok
         THEN Goto("rpoll_check")
              /\ loc' = [loc EXCEPT !.submitted = loc.final, !.extJob = <<"remix job">>,
                                    !.elapsed = 0, !.interval = n]
         ELSE Raise(AIServiceError(<<"OpenAI video remix service error: ", "upstream">>),
                    "flow_except")
              /\ loc' = [loc EXCEPT !.submitted = loc.final]
    /\ UNCHANGED <<store, request>>
    /\ UNCHANGED <<other, helpers>>

\* raise AIServiceError(f"OpenAI remix job failed: {error}")
RemixJobFailedBare(error) == AIServiceError(error)
RemixJobFailed(error) == AIServiceError(<<"OpenAI remix job failed: ">> \o error)

RemixTimeout == AIServiceError(<<"Remix polling timed out">>)

\* "while time.time() - start_time < max_wait", and the raise after the loop
RemixPollCheck ==
    /\ pc = "rpoll_check"
    /\ IF PollMayStart(loc.elapsed)
         THEN Goto("rpoll_status")
         ELSE Raise(RemixTimeout, "rpoll_except")
    /\ UNCHANGED <<store, calls, request, loc>>
    /\ UNCHANGED <<other, helpers>>

RemixPollStatus(st, d) ==
    /\ pc = "rpoll_status"
    /\ Call("get_video_job_status")
    /\ LET timed == [loc EXCEPT !.elapsed = @ + d, !.status = st]
       IN CASE st = "raise" -> Raise(StatusError, "rpoll_except") /\ loc' = timed
            [] st = "completed" -> Goto("rdownload") /\ loc' = timed
            [] st = "failed" ->
                 Raise(RemixJobFailed(<<"quota_exceeded">>), "rpoll_except")
                 /\ loc' = [timed EXCEPT !.remoteErr = <<"quota_exceeded">>]
            [] st = "failed_noerror" ->
                 Raise(RemixJobFailed(<<"Unknown error">>), "rpoll_except")
                 /\ loc' = [timed EXCEPT !.remoteErr = <<"Unknown error">>]
            [] OTHER -> Goto("rpoll_sleep") /\ loc' = timed
    /\ UNCHANGED <<store, request>>
    /\ UNCHANGED <<other, helpers>>

RemixPollSleep ==
    /\ pc = "rpoll_sleep"
    /\ Goto("rpoll_check")
    /\ loc' = [loc EXCEPT !.elapsed = @ + loc.interval]
    /\ UNCHANGED <<store, calls, request>>
    /\ UNCHANGED <<other, helpers>>

\* the path the remix poller caches the asset of a job at
RemixLocalPath(job_id) == <<"remixes", job_id, ".mp4">>

\* the statement after the download in poll_and_save_remix: the local save
RemixAfterDownloadNoLocalSave == "rupload"
RemixAfterDownload == "rsave_local"

RemixDownload(ok) ==
    /\ pc = "rdownload"
    /\ Call("download_video_content")
    /\ IF ok THEN Goto(RemixAfterDownload) /\ loc' = loc
             ELSE Raise(DownloadError, "rpoll_except")
                  /\ loc' = [loc EXCEPT !.storageExc = DownloadError]
    /\ UNCHANGED <<store, request>>
    /\ UNCHANGED <<other, helpers>>

\* the asset written to <cwd>/remixes/<id>.mp4
RemixSaveLocal(ok) ==
    /\ pc = "rsave_local"
    /\ Call("write_local_file")
    /\ IF ok
         THEN Goto("rupload") /\ files' = files \cup {RemixLocalPath(jobId)}
         ELSE Raise(MkExc("OSError", <<"cannot write file">>), "rpoll_except")
              /\ files' = files
    /\ UNCHANGED <<db, blobs, writes, request, loc>>
    /\ UNCHANGED <<other, helpers>>

\* db_service.upload_file(bucket "ai_videos", path "remix_<id>.mp4")
RemixBlob(job_id) == <<"ai_videos", <<"remix_", job_id, ".mp4">> >>

RemixUpload(ok) ==
    /\ pc = "rupload"
    /\ Call("upload_file")
    /\ IF ok
         THEN /\ blobs' = blobs \cup {RemixBlob(jobId)}
              /\ Goto("rwrite_completed")
              /\ loc' = [loc EXCEPT !.storageUrl = <<"ai_videos", "remix_", jobId, ".mp4">>]
         ELSE /\ Raise(UploadError, "rpoll_except")
              /\ loc' = [loc EXCEPT !.storageExc = UploadError]
              /\ blobs' = blobs
    /\ UNCHANGED <<db, files, writes, request>>
    /\ UNCHANGED <<other, helpers>>

RemixWriteCompleted(ok) ==
    /\ pc = "rwrite_completed"
    /\ UpdateRecord("video_assets", jobId,
                    CompletedData(loc.storageUrl, PolledPrompt(loc), <<"Remixed Video">>),
                    ok, "done", "rpoll_except")
    /\ UNCHANGED <<files, blobs, request, loc>>
    /\ UNCHANGED <<other, helpers>>

\* "except Exception" of poll_and_save_remix
RemixPollExcept(ok) ==
    /\ pc = "rpoll_except"
    /\ UpdateRecord("video_assets", jobId, FailedData(exc), ok, "done", "flow_except")
    /\ UNCHANGED <<files, blobs, request, loc>>
    /\ UNCHANGED <<other, helpers>>

-----------------------------------------------------------------------------
(* Image flow: run_image_orchestration_flow and process_image_task *)

\* "Re-assert pending"
ImgReassert(ok) ==
    /\ pc = "img_reassert"
    /\ UpdateRecord("image_assets", jobId, [status |-> "pending"], ok,
                    "img_refine", "img_except")
    /\ UNCHANGED <<files, blobs, request, loc>>
    /\ UNCHANGED <<other, helpers>>

\* refine_prompt
ImgRefine(ok) ==
    /\ pc = "img_refine"
    /\ ChatCall("refine_prompt", ok, "img_generate",
                [loc EXCEPT !.final = <<"refined prompt">>], "img_except")
    /\ UNCHANGED <<other, helpers>>

\* generate_image: the provider returns a url, returns None, or raises
ImgGenerate(r) ==
    /\ pc = "img_generate"
    /\ Call("generate_image")
    /\ CASE r = "url"  -> Goto("img_title") /\ loc' = [loc EXCEPT !.imageUrl = <<"provider url">>]
         [] r = "none" -> Goto("img_title") /\ loc' = [loc EXCEPT !.imageUrl = None]
         [] r = "fail" -> Raise(MkExc("RequestException", <<"provider request failed">>),
                                "img_except")
                          /\ loc' = loc
    /\ UNCHANGED <<store, request>>
    /\ UNCHANGED <<other, helpers>>

\* where an exception of _generate_creative_title goes in this flow: the call
\* has no try of its own, so to the flow's except
ImgTitleBestEffort == "img_download"
ImgTitleHandler == "img_except"

\* _generate_creative_title, not guarded in this flow
ImgTitle(ok) ==
    /\ pc = "img_title"
    /\ ChatCall("generate_title", ok, "img_download",
                [loc EXCEPT !.title = <<"catchy title">>], ImgTitleHandler)
    /\ UNCHANGED <<other, helpers>>

\* download_image(image_url); a None url cannot be fetched
ImgDownload(ok) ==
    /\ pc = "img_download"
    /\ Call("download_image")
    /\ IF ok /\ Truthy(loc.imageUrl)
         THEN Goto("img_upload")
         ELSE Raise(MkExc("RequestException", <<"download failed">>), "img_except")
    /\ UNCHANGED <<store, request, loc>>
    /\ UNCHANGED <<other, helpers>>

\* db_service.upload_file(bucket "ai_images", path "<id>.png")
ImgUpload(ok) ==
    /\ pc = "img_upload"
    /\ Call("upload_file")
    /\ IF ok
         THEN /\ blobs' = blobs \cup {<<"ai_images", <<jobId, ".png">> >>}
              /\ Goto("img_write_completed")
              /\ loc' = [loc EXCEPT !.storageUrl = <<"ai_images", jobId, ".png">>]
         ELSE /\ Raise(UploadError, "img_except")
              /\ UNCHANGED <<blobs, loc>>
    /\ UNCHANGED <<db, files, writes, request>>
    /\ UNCHANGED <<other, helpers>>

ImgWriteCompleted(ok) ==
    /\ pc = "img_write_completed"
    /\ UpdateRecord("image_assets", jobId,
                    [status |-> "completed", image_url |-> loc.storageUrl,
                     image_prompt |-> loc.final, title |-> loc.title],
                    ok, "done", "img_except")
    /\ UNCHANGED <<files, blobs, request, loc>>
    /\ UNCHANGED <<other, helpers>>

\* "except Exception" of run_image_orchestration_flow
ImgExcept(ok) ==
    /\ pc = "img_except"
    /\ UpdateRecord("image_assets", jobId, FailedData(exc), ok, "done", "img_task_except")
    /\ UNCHANGED <<files, blobs, request, loc>>
    /\ UNCHANGED <<other, helpers>>

\* "except Exception" of process_image_task
ImgTaskExcept(ok) ==
    /\ pc = "img_task_except"
    /\ UpdateRecord("image_assets", jobId, FailedData(exc), ok, "done", "crashed")
    /\ UNCHANGED <<files, blobs, request, loc>>
    /\ UNCHANGED <<other, helpers>>

-----------------------------------------------------------------------------
\* the reference of a video request: nothing, an inline image, or a url
VideoRefs == {[b64 |-> None, url |-> None],
              [b64 |-> <<"inline image">>, url |-> None],
              [b64 |-> None, url |-> <<"reference url">>]}
Urls == {None, <<"reference url">>}

Next ==
    \/ \E vt \in VideoTypes, ref \in VideoRefs,
          dl \in {"none", "fail", "empty", "bytes"}, ins \in BOOLEAN :
          InitiateVideo(vt, ref.b64, ref.url, dl, ins)
    \/ \E url \in Urls, ins \in BOOLEAN : InitiateRemix(url, ins)
    \/ \E ins \in BOOLEAN : InitiateImage(ins)
    \/ ProcessVideoTask
    \/ ProcessRemixTask
    \/ ProcessImageTask
    \/ \E ok \in BOOLEAN : ConceptAgent(ok)
    \/ \E ok \in BOOLEAN : VisualAgent(ok)
    \/ \E ok \in BOOLEAN : AudioAgent(ok)
    \/ \E ok \in BOOLEAN : AssemblyAgent(ok)
    \/ \E r \in QaResponses : QaScore(r)
    \/ \E ok \in BOOLEAN : QaFix(ok)
    \/ \E o \in ModerationOutcomes : Moderation(o)
    \/ \E ok \in BOOLEAN : Sanitize(ok)
    \/ \E o \in {"ok", "image_error", "create_error"}, n \in PollIntervals : Submit(o, n)
    \/ PollCheck
    \/ \E st \in RemoteStatuses, d \in 0..MaxStatusDur : PollStatus(st, d)
    \/ PollSleep
    \/ \E ok \in BOOLEAN : Download(ok)
    \/ \E ok \in BOOLEAN : Upload(ok)
    \/ \E ok \in BOOLEAN : Title(ok)
    \/ \E ok \in BOOLEAN : WriteCompleted(ok)
    \/ \E ok \in BOOLEAN : PollInnerExcept(ok)
    \/ \E ok \in BOOLEAN : WriteRemoteFailed(ok)
    \/ \E ok \in BOOLEAN : WriteTimeout(ok)
    \/ \E ok \in BOOLEAN : PollExcept(ok)
    \/ \E r \in {"ok", "fail", "nojson"} : UgcAnalysis(r)
    \/ \E r \in {"approved", "rejected", "noverdict", "fail", "nojson"} : UgcAnalysisQa(r)
    \/ \E r \in {"ok", "fail", "nojson"} : UgcReanalysis(r)
    \/ \E r \in RealismOutcomes : UgcRealism(r)
    \/ \E ok \in BOOLEAN : UgcMaster(ok)
    \/ \E r \in QaResponses : UgcQaScore(r)
    \/ \E ok \in BOOLEAN : UgcQaFix(ok)
    \/ \E o \in ModerationOutcomes : RemixModeration(o)
    \/ \E ok \in BOOLEAN, n \in PollIntervals : RemixSubmit(ok, n)
    \/ RemixPollCheck
    \/ \E st \in RemoteStatuses, d \in 0..MaxStatusDur : RemixPollStatus(st, d)
    \/ RemixPollSleep
    \/ \E ok \in BOOLEAN : RemixDownload(ok)
    \/ \E ok \in BOOLEAN : RemixSaveLocal(ok)
    \/ \E ok \in BOOLEAN : RemixUpload(ok)
    \/ \E ok \in BOOLEAN : RemixWriteCompleted(ok)
    \/ \E ok \in BOOLEAN : RemixPollExcept(ok)
    \/ \E ok \in BOOLEAN : ImgReassert(ok)
    \/ \E ok \in BOOLEAN : ImgRefine(ok)
    \/ \E r \in {"url", "none", "fail"} : ImgGenerate(r)
    \/ \E ok \in BOOLEAN : ImgTitle(ok)
    \/ \E ok \in BOOLEAN : ImgDownload(ok)
    \/ \E ok \in BOOLEAN : ImgUpload(ok)
    \/ \E ok \in BOOLEAN : ImgWriteCompleted(ok)
    \/ \E ok \in BOOLEAN : ImgExcept(ok)
    \/ \E ok \in BOOLEAN : ImgTaskExcept(ok)
    \/ \E ok \in BOOLEAN : FlowExcept(ok)
    \/ \E ok \in BOOLEAN : TaskExcept(ok)

Spec == Init /\ [][Next]_vars

-----------------------------------------------------------------------------
(* Two jobs: the background tasks are plain functions that the server runs  *)
(* on worker threads, so a second request and its task run while the first  *)
(* task is between two of its calls.                                        *)

\* the running job
Me ==
    [writes |-> writes, calls |-> calls, pc |-> pc, exc |-> exc, variant |-> variant,
     jobId |-> jobId, reqIn |-> reqIn, resp |-> resp, loc |-> loc]

\* the running job is suspended between two calls and the other one runs
Switch ==
    /\ other' = Me
    /\ writes' = other.writes
    /\ calls' = other.calls
    /\ pc' = other.pc
    /\ exc' = other.exc
    /\ variant' = other.variant
    /\ jobId' = other.jobId
    /\ reqIn' = other.reqIn
    /\ resp' = other.resp
    /\ loc' = other.loc
    /\ UNCHANGED <<db, files, blobs, helpers>>

\* a promo job and a remix job, or two of a kind, with the collaborator
\* outcomes that lead to a write: success, a failed assembly, a flagged remix
\* prompt, a failed remote job
NextConcurrent ==
    \/ Switch
    \/ InitiateVideo("promo", <<"inline image">>, None, "none", TRUE)
    \/ InitiateRemix(None, TRUE)
    \/ ProcessVideoTask
    \/ ProcessRemixTask
    \/ ConceptAgent(TRUE)
    \/ VisualAgent(TRUE)
    \/ AudioAgent(TRUE)
    \/ \E ok \in BOOLEAN : AssemblyAgent(ok)
    \/ QaScore([kind |-> "score", score |-> QaPassScore])
    \/ Moderation("clean")
    \/ Submit("ok", PollIntervalSec)
    \/ PollCheck
    \/ \E st \in {"completed", "failed"} : PollStatus(st, 0)
    \/ Download(TRUE)
    \/ Upload(TRUE)
    \/ Title(TRUE)
    \/ WriteCompleted(TRUE)
    \/ WriteRemoteFailed(TRUE)
    \/ FlowExcept(TRUE)
    \/ \E o \in {"clean", "flagged"} : RemixModeration(o)
    \/ RemixSubmit(TRUE, PollIntervalSec)
    \/ RemixPollCheck
    \/ \E st \in {"completed", "failed"} : RemixPollStatus(st, 0)
    \/ RemixDownload(TRUE)
    \/ RemixSaveLocal(TRUE)
    \/ RemixUpload(TRUE)
    \/ RemixWriteCompleted(TRUE)
    \/ RemixPollExcept(TRUE)

SpecConcurrent == Init /\ [][NextConcurrent]_vars

-----------------------------------------------------------------------------
(* State functions used by the properties *)

HasRow == jobId \in DOMAIN db
Row == db[jobId]
TaskEnded == pc \in {"done", "crashed"}
ModerationMsg == <<"Remix prompt flagged by moderation">>

TerminalUpdatesIssued ==
    Cardinality({k \in 1..Len(writes) : IsTerminalUpdate(writes[k])})
TerminalUpdatesApplied ==
    Cardinality({k \in 1..Len(writes) : IsTerminalUpdate(writes[k]) /\ writes[k].applied})

-----------------------------------------------------------------------------
(* Properties *)

\* C1: the persisted status of a job leaves pending at most once (at most one
\* terminal update is ever applied), and once a row holds completed or failed
\* no later step changes any field of it.
C1_SingleTerminalWrite ==
    /\ [](TerminalUpdatesApplied <= 1)
    /\ [][\A id \in DOMAIN db :
            IsTerminalStatus(db[id].status) => (id \in DOMAIN db' /\ db'[id] = db[id])]_vars

\* C1 witness: a job that ended with a terminal row after an update call that
\* failed before the one that was applied.
C1_Witness ==
    /\ HasRow /\ pc = "done"
    /\ IsTerminalStatus(Row.status)
    /\ Len(writes) >= 2
    /\ TerminalUpdatesApplied = 1

\* C2: for one job id at most one terminal update (completed or failed) is
\* issued to the persistence gateway, also when an update call fails.
C2_AtMostOneTerminalUpdateIssued == TerminalUpdatesIssued <= 1

\* C3: no run routine and no background task lets an exception out: the
\* exception never reaches the handler of the background task from a run
\* routine, and never leaves the background task.
C3_NeverPropagates ==
    /\ pc # "crashed"
    /\ ~(pc \in {"task_except", "img_task_except"} /\ variant # "general")

\* C4: a job whose background task has ended has a terminal persisted status:
\* no job is left pending.
C4_EndedJobIsTerminal ==
    (TaskEnded /\ HasRow) => IsTerminalStatus(Row.status)

\* C5: a video initiation with no inline image and either no url or a url
\* whose fetch fails answers ValidationError, and a request answered
\* ValidationError has inserted no row.
C5_NoRowOnValidationError ==
    /\ (/\ pc # "idle"
        /\ variant \in VideoTypes
        /\ ~Truthy(reqIn.b64)
        /\ (~Truthy(reqIn.url) \/ reqIn.dl = "fail"))
         => /\ resp = "ValidationError"
            /\ pc = "rejected"
    /\ resp = "ValidationError"
         => /\ DOMAIN db = {}
            /\ Count(calls, "insert_record") = 0

\* C5 witness: a request with only a url whose fetch failed was rejected.
C5_Witness ==
    /\ resp = "ValidationError"
    /\ Truthy(reqIn.url)
    /\ reqIn.dl = "fail"

\* C6: a general job in which every collaborator call succeeded ends in
\* status completed with a result url.
C6_GeneralJobCompletes ==
    (/\ variant = "general"
     /\ pc = "done"
     /\ \A k \in 1..Len(writes) : writes[k].applied)
      => /\ Row.status = "completed"
         /\ Truthy(Row.video_url)

\* C7: in the promo, fashion and ugc flows the moderation check is made at
\* most once and sanitize at most once and only on a flag; a submitted prompt
\* is the output of the one sanitize call when the check flagged, and the
\* unchanged QA output, with no sanitize call, when it did not.
C7_ModerationSinglePass ==
    variant \in {"promo", "fashion", "ugc"} =>
        LET mc == Count(calls, "moderation_check")
            sc == Count(calls, "sanitize")
        IN /\ mc <= 1
           /\ sc <= 1
           /\ sc = 1 => (mc = 1 /\ loc.flagged)
           /\ Truthy(loc.submitted) =>
                /\ mc = 1
                /\ IF loc.flagged
                     THEN /\ sc = 1
                          /\ loc.sanOut = SanitizeOf(loc.qaOut)
                          /\ loc.submitted = loc.sanOut
                     ELSE /\ sc = 0
                          /\ loc.submitted = loc.qaOut

\* C7 witness: a ugc job whose prompt was flagged has submitted a prompt.
C7_Witness ==
    /\ variant = "ugc"
    /\ loc.flagged
    /\ Truthy(loc.submitted)

\* C8 as stated: in the remix flow a flagged prompt is sanitized once, the
\* remix job is created with the sanitized prompt, and the job does not end
\* failed because of the flag.
C8_RemixSanitizesAndProceeds ==
    (variant = "remix" /\ loc.flagged /\ TaskEnded) =>
        /\ Count(calls, "sanitize") = 1
        /\ Count(calls, "remix_video_job") = 1
        /\ loc.submitted = loc.sanOut
        /\ \A k \in 1..Len(writes) : writes[k].data # FailedData(ModerationError(ModerationMsg))

\* C8 amended: in the remix flow a flagged prompt is rejected: no sanitize
\* call, no remix job and no status poll are made, the flow raises
\* ModerationError, the first update issued is the failed update carrying
\* "Remix prompt flagged by moderation", and the job never reaches completed.
C8_RemixRejectsFlagged ==
    (variant = "remix" /\ loc.flagged) =>
        /\ Count(calls, "sanitize") = 0
        /\ Count(calls, "remix_video_job") = 0
        /\ Count(calls, "get_video_job_status") = 0
        /\ ~Truthy(loc.submitted)
        /\ pc \in {"flow_except", "task_except", "done", "crashed"}
        /\ pc = "flow_except" => exc = ModerationError(ModerationMsg)
        /\ Len(writes) >= 1 => writes[1].data = FailedData(ModerationError(ModerationMsg))
        /\ Row.status # "completed"
        /\ (Len(writes) >= 1 /\ writes[1].applied) =>
              (Row.status = "failed" /\ Row.error_message = ModerationMsg)

\* C8 witness: a remix job whose prompt was flagged has ended failed.
C8_Witness ==
    /\ variant = "remix"
    /\ loc.flagged
    /\ pc = "done"
    /\ Row.status = "failed"

\* C9: when the moderation request fails (transport error, error status or
\* malformed body) moderation_check answers not flagged: no sanitize call is
\* made, the flow goes on to the submission step, a submitted prompt is the
\* unsanitized one, and no moderation error fails the job.
C9_ModerationFailsOpen ==
    (variant \in {"promo", "fashion", "ugc", "remix"} /\ loc.modOutcome \in ModerationOutages) =>
        /\ ~loc.flagged
        /\ Count(calls, "sanitize") = 0
        /\ exc.type # "ModerationError"
        /\ \/ pc \in {"submit", "remix_submit"}
           \/ Count(calls, "process_image") + Count(calls, "remix_video_job") >= 1
        /\ Truthy(loc.submitted) => loc.submitted = loc.qaOut
        /\ \A k \in 1..Len(writes) : writes[k].data # FailedData(ModerationError(ModerationMsg))

\* C9 witness: a job whose moderation request failed in transport completed.
C9_Witness ==
    /\ loc.modOutcome = "transport_error"
    /\ Truthy(loc.submitted)
    /\ HasRow /\ Row.status = "completed"

\* C10: the promo/fashion QA loop makes at most 3 scoring calls and at most 2
\* correction calls, the ugc QA loop at most 1 of each; a loop position is
\* only ever reached with a call still within these bounds, so the loops end.
C10_QaBounded ==
    LET scorings == Count(calls, "qa_score")
        fixes    == Count(calls, "qa_fix")
    IN /\ variant \in {"promo", "fashion"} =>
            /\ scorings <= 3 /\ fixes <= 2
            /\ pc = "qa_score" => scorings < 3
            /\ pc = "qa_fix" => fixes < 2
       /\ variant = "ugc" =>
            /\ scorings <= 1 /\ fixes <= 1
            /\ pc = "ugc_qa_score" => scorings < 1
            /\ pc = "ugc_qa_fix" => fixes < 1

\* C10 witness: a promo job left the QA loop after 3 scorings and 2 corrections.
C10_Witness ==
    /\ variant = "promo"
    /\ pc = "moderation"
    /\ Count(calls, "qa_score") = 3
    /\ Count(calls, "qa_fix") = 2


-----------------------------------------------------------------------------
(* QA loops *)

Assembled == <<"assembled prompt">>
UgcMasterPrompt == <<"ugc master prompt">>
Scorings == Count(calls, "qa_score")
Corrections == Count(calls, "qa_fix")
\* the candidate after n corrections (n <= 2)
Corrected(p, n) == IF n = 0 THEN p ELSE IF n = 1 THEN FixOf(p) ELSE FixOf(FixOf(p))

\* C11: the promo/fashion QA loop stops at the first attempt that scores 80 or
\* more: no correction call and no scoring call follows a passing score, and
\* the loop then returns the candidate scored on that attempt with that
\* attempt's result (after k failing attempts: k corrections, k + 1 scorings,
\* the k times corrected candidate).
C11_QaEarlyExit ==
    variant \in {"promo", "fashion"} =>
        /\ pc = "qa_fix" => loc.qaRes.score < 80
        /\ (pc = "qa_score" /\ Scorings >= 1) => loc.qaRes.score < 80
        /\ (Truthy(loc.qaOut) /\ loc.qaRes.score >= 80) =>
              /\ loc.qaRes.of = loc.qaOut
              /\ Corrections = Scorings - 1
              /\ loc.qaOut = Corrected(Assembled, Corrections)
              /\ pc = "moderation" => loc.final = loc.qaOut

\* C11 witness: a failing score then a passing one: 2 scoring calls, 1
\* correction call, and the corrected candidate returned with the passing score.
C11_Witness ==
    /\ variant = "promo"
    /\ pc = "moderation"
    /\ Scorings = 2
    /\ Corrections = 1
    /\ loc.qaRes.score = 85
    /\ loc.qaOut = FixOf(Assembled)

\* C12: on every return path of the promo/fashion QA loop the returned QA
\* result is the scoring of exactly the returned candidate: every correction
\* made was followed by a scoring of the corrected candidate.
C12_QaResultOfReturnedCandidate ==
    (variant \in {"promo", "fashion"} /\ Truthy(loc.qaOut)) =>
        /\ loc.qaRes.of = loc.qaOut
        /\ Scorings = Corrections + 1
        /\ loc.qaOut = Corrected(Assembled, Corrections)

\* C12 witness: the loop returned after 3 failing scores.
C12_Witness ==
    /\ variant = "fashion"
    /\ pc = "moderation"
    /\ Scorings = 3
    /\ loc.qaRes.score < 80
    /\ loc.qaRes.of = Corrected(Assembled, 2)

\* C13: the ugc QA loop scores once; a score of 85 or more returns the
\* initial candidate with its result; a lower score makes one correction and
\* returns the corrected candidate, never scored, with the result of the
\* initial candidate; the returned candidate is the one given to moderation
\* and (sanitized when flagged) to the submission.
C13_UgcUnscoredCorrection ==
    variant = "ugc" =>
        /\ pc = "ugc_qa_fix" => loc.qaRes.score < 85
        /\ Truthy(loc.qaOut) =>
              /\ Scorings = 1
              /\ loc.qaRes.of = UgcMasterPrompt
              /\ IF loc.qaRes.score >= 85
                   THEN loc.qaOut = UgcMasterPrompt /\ Corrections = 0
                   ELSE loc.qaOut = FixOf(UgcMasterPrompt) /\ Corrections = 1
                        /\ loc.qaRes.of # loc.qaOut
              /\ pc = "moderation" => loc.final = loc.qaOut
              /\ Truthy(loc.submitted) =>
                    loc.submitted = (IF loc.flagged THEN SanitizeOf(loc.qaOut) ELSE loc.qaOut)

\* C13 witness: a ugc candidate scored 80 was corrected and the unscored
\* correction was submitted.
C13_Witness ==
    /\ variant = "ugc"
    /\ loc.qaRes.score = 80
    /\ loc.qaRes.of = UgcMasterPrompt
    /\ loc.submitted = FixOf(UgcMasterPrompt)

-----------------------------------------------------------------------------
(* Pollers *)

StandardVariants == {"promo", "fashion", "ugc"}
Polls == Count(calls, "get_video_job_status")
InPollLoop == pc \in {"poll_check", "poll_status", "poll_sleep",
                      "rpoll_check", "rpoll_status", "rpoll_sleep"}
\* the last status request answered a non-terminal status and the loop was left
TimedOut == loc.status = "in_progress" /\ ~InPollLoop
RemoteFailed == loc.status \in {"failed", "failed_noerror"}
\* the text t ends with the text e
EndsWith(t, e) == Len(t) >= Len(e) /\ SubSeq(t, Len(t) - Len(e) + 1, Len(t)) = e

\* C14: no status poll is started once the elapsed time has reached the
\* maximal wait (the k-th poll starts before (k - 1) intervals exceed it, so an
\* interval equal to the maximal wait gives exactly one poll); the loop is
\* left on timeout only with elapsed time >= the maximal wait, and the poller
\* then issues, as its first update, a failed update with a timeout error,
\* which, once accepted, is the row's terminal state.
C14_TimeoutBound ==
    variant \in StandardVariants \cup {"remix"} =>
        /\ pc \in {"poll_status", "rpoll_status"} => loc.elapsed < PollMaxWait
        /\ Polls >= 1 => (Polls - 1) * loc.interval < PollMaxWait
        /\ loc.interval = PollMaxWait => Polls <= 1
        /\ TimedOut =>
              /\ loc.elapsed >= PollMaxWait
              /\ Polls >= 1
              /\ loc.interval = PollMaxWait => Polls = 1
              /\ pc = "write_timeout" => Len(writes) = 0
              /\ pc = "rpoll_except" => exc = AIServiceError(<<"Remix polling timed out">>)
              /\ Len(writes) >= 1 =>
                    /\ writes[1].data.status = "failed"
                    /\ writes[1].data.error_message =
                          (IF variant = "remix" THEN <<"Remix polling timed out">>
                                                ELSE <<"Timed out">>)
                    /\ writes[1].applied =>
                          /\ pc = "done"
                          /\ Row.status = "failed"
                          /\ Row.error_message = writes[1].data.error_message

\* C14 witness: with the interval equal to the maximal wait, a job whose one
\* poll answered in_progress ended failed with the timeout error.
C14_Witness ==
    /\ variant = "promo"
    /\ loc.interval = PollMaxWait
    /\ pc = "done"
    /\ Polls = 1
    /\ Row.status = "failed"
    /\ Row.error_message = <<"Timed out">>

\* C15: in the standard poller, after a remote status failed with error E no
\* status poll is made, the first update issued is a failed update whose
\* error_message is E exactly and which carries the attempted prompt, and once
\* it is accepted it is the only update of the job and the row holds status
\* failed, error_message E and the attempted prompt.
C15_RemoteFailurePassthrough ==
    (variant \in StandardVariants /\ RemoteFailed) =>
        /\ ~InPollLoop
        /\ loc.remoteErr = (IF loc.status = "failed" THEN <<"quota_exceeded">>
                                                     ELSE <<"Unknown error">>)
        /\ pc = "write_remote_failed" => Len(writes) = 0
        /\ Len(writes) >= 1 =>
              /\ writes[1].data = [status |-> "failed", error_message |-> loc.remoteErr,
                                   video_prompt |-> loc.submitted]
              /\ writes[1].applied =>
                    /\ pc = "done"
                    /\ Len(writes) = 1
                    /\ Row.status = "failed"
                    /\ Row.error_message = loc.remoteErr
                    /\ Row.video_prompt = loc.submitted

\* C15 witness: a job whose remote job failed with quota_exceeded ended with
\* that error on its row.
C15_Witness ==
    /\ variant = "fashion"
    /\ loc.status = "failed"
    /\ pc = "done"
    /\ Len(writes) = 1
    /\ Row.error_message = <<"quota_exceeded">>
    /\ Truthy(Row.video_prompt)

\* C16 as stated: the remix poller does on remote failure and on timeout what
\* the standard poller does: on remote status failed with error E the failed
\* update it issues has error_message E and keeps the attempted prompt.
C16_RemixPollerAsStandard ==
    (variant = "remix" /\ RemoteFailed /\ Len(writes) >= 1) =>
        writes[1].data = [status |-> "failed", error_message |-> loc.remoteErr,
                          video_prompt |-> loc.submitted]

\* C16 amended: the remix poller runs the loop of the standard poller, but on
\* remote status failed with error E the first update it issues is a failed
\* update whose error_message is "OpenAI remix job failed: " followed by E and
\* which carries no prompt; on timeout the first update it issues is a failed
\* update with "Remix polling timed out"; in both cases no status poll
\* follows, and once the update is accepted it is the only one and the row
\* holds that error and no generated prompt.
C16_RemixPollerFailure ==
    variant = "remix" =>
        /\ RemoteFailed =>
              /\ ~InPollLoop
              /\ Len(writes) >= 1 =>
                    writes[1].data =
                        [status |-> "failed",
                         error_message |-> <<"OpenAI remix job failed: ">> \o loc.remoteErr]
        /\ TimedOut =>
              /\ Len(writes) >= 1 =>
                    writes[1].data = [status |-> "failed",
                                      error_message |-> <<"Remix polling timed out">>]
        /\ ((RemoteFailed \/ TimedOut) /\ Len(writes) >= 1 /\ writes[1].applied) =>
              /\ pc = "done"
              /\ Len(writes) = 1
              /\ Row.status = "failed"
              /\ Row.error_message = writes[1].data.error_message
              /\ ~Truthy(Row.video_prompt)

\* C16 witness: a remix job whose remote job failed with quota_exceeded ended
\* with the prefixed error on its row.
C16_Witness ==
    /\ variant = "remix"
    /\ loc.status = "failed"
    /\ pc = "done"
    /\ Row.error_message = <<"OpenAI remix job failed: ", "quota_exceeded">>

\* C17: a failed status request does not end the polling loop and does not
\* fail the job: after it the poller sleeps and polls again, and no failed
\* update has been issued.
C17_StatusFailureKeepsPolling ==
    (variant \in StandardVariants \cup {"remix"} /\ loc.status = "raise") =>
        /\ InPollLoop \/ TimedOut
        /\ Len(writes) = 0

\* C18: after a remote status completed, when the download or the upload
\* failed, no completed update is ever issued and the row never becomes
\* completed; the first update issued is a failed update whose error_message
\* ends with the text of the download / upload error, and once it is accepted
\* the job has ended with that failed row.  Standard and remix pollers.
C18_StorageFailureFails ==
    (variant \in StandardVariants \cup {"remix"} /\ loc.storageExc # NoExc) =>
        /\ loc.status = "completed"
        /\ \A k \in 1..Len(writes) : writes[k].data.status = "failed"
        /\ Row.status # "completed"
        /\ Len(writes) >= 1 =>
              /\ EndsWith(writes[1].data.error_message, Str(loc.storageExc))
              /\ variant # "remix" =>
                    writes[1].data.error_message =
                        <<"Video storage failed: ">> \o Str(loc.storageExc)
              /\ writes[1].applied =>
                    /\ pc = "done"
                    /\ Row.status = "failed"
                    /\ EndsWith(Row.error_message, Str(loc.storageExc))

\* C18 witness: a ugc job whose upload failed ended failed with the storage
\* error on its row.
C18_Witness ==
    /\ variant = "ugc"
    /\ loc.storageExc = UploadError
    /\ pc = "done"
    /\ Row.status = "failed"
    /\ Row.error_message = <<"Video storage failed: ", "Storage upload error: ", "upstream">>

\* C19: in the standard poller the title call, failed or not, is followed by
\* the completed update: the first update issued after it is the completed
\* update with the uploaded object's url, the submitted prompt and the title
\* (the default title "Generated Video" when the call failed), and once it is
\* accepted the row is completed with these values.
C19_TitleBestEffort ==
    (variant \in StandardVariants /\ Truthy(loc.title)) =>
        /\ loc.title \in {<<"catchy title">>, <<"Generated Video">>}
        /\ pc = "write_completed" => (exc = NoExc /\ Len(writes) = 0)
        /\ pc \notin {"poll_inner_except", "poll_except", "flow_except", "task_except"}
              => pc \in {"write_completed", "done", "crashed"}
        /\ Len(writes) = 0 => pc = "write_completed"
        /\ Len(writes) >= 1 =>
              /\ writes[1].data = [status |-> "completed",
                                   video_url |-> <<"ai_videos", jobId, ".mp4">>,
                                   video_prompt |-> loc.submitted,
                                   title |-> loc.title]
              /\ writes[1].applied =>
                    /\ pc = "done"
                    /\ Row.status = "completed"
                    /\ Row.title = loc.title
                    /\ Row.video_url = <<"ai_videos", jobId, ".mp4">>
                    /\ Row.video_prompt = loc.submitted

\* C19 witness: a job whose title call failed ended completed with the
\* default title.
C19_Witness ==
    /\ variant = "promo"
    /\ Count(calls, "generate_title") = 1
    /\ pc = "done"
    /\ Row.status = "completed"
    /\ Row.title = <<"Generated Video">>
    /\ Truthy(Row.video_url)

VideoVariants == StandardVariants \cup {"general", "remix"}

\* C20 as stated: on a video row the generated prompt and the result url are
\* both unset or both set, and a failed or pending row carries no generated
\* prompt.
C20_PromptAndUrlTogether ==
    (variant \in VideoVariants /\ HasRow) =>
        /\ Truthy(Row.video_prompt) <=> Truthy(Row.video_url)
        /\ Row.status \in {"failed", "pending"} => ~Truthy(Row.video_prompt)

\* C20 amended: on a video row the result url is set exactly when the status
\* is completed, every update that carries a result url is a completed update
\* that also carries the generated prompt, a pending row carries neither, and
\* a failed row carries a generated prompt (without result url) only when it
\* was written by the remote-failure branch of the standard poller.
C20_UrlOnlyOnCompleted ==
    (variant \in VideoVariants /\ HasRow) =>
        /\ Truthy(Row.video_url) <=> Row.status = "completed"
        /\ Row.status = "completed" => Truthy(Row.video_prompt)
        /\ Row.status = "pending" => ~Truthy(Row.video_prompt)
        /\ \A k \in 1..Len(writes) :
              "video_url" \in DOMAIN writes[k].data =>
                  /\ writes[k].data.status = "completed"
                  /\ "video_prompt" \in DOMAIN writes[k].data
                  /\ Truthy(writes[k].data.video_prompt)
                  /\ Truthy(writes[k].data.video_url)
        /\ (Row.status = "failed" /\ Truthy(Row.video_prompt)) =>
              /\ variant \in StandardVariants
              /\ RemoteFailed
              /\ Row.error_message = loc.remoteErr
              /\ Row.video_prompt = loc.submitted
        /\ (variant \in StandardVariants /\ RemoteFailed
              /\ Len(writes) >= 1 /\ writes[1].applied) =>
              (Row.status = "failed" /\ Row.video_prompt = loc.submitted)

\* C20 witness: a failed row that carries the attempted prompt and no result url.
C20_Witness ==
    /\ variant = "promo"
    /\ HasRow
    /\ Row.status = "failed"
    /\ Truthy(Row.video_prompt)
    /\ ~Truthy(Row.video_url)

-----------------------------------------------------------------------------
(* Persisted fields *)

\* the fields of a row other than status and error_message
ContentFields(row) == DOMAIN row \ {"status", "error_message"}
\* a step changed the row id and left it failed
MovedToFailed(id) ==
    /\ id \in DOMAIN db'
    /\ db'[id] # db[id]
    /\ db'[id].status = "failed"
ErrorOnlyOnFailed ==
    \A k \in 1..Len(writes) :
        "error_message" \in DOMAIN writes[k].data => writes[k].data.status = "failed"

\* C21 as stated: a write that moves a job to failed changes no field other
\* than status and error_message, and error_message is set only by writes
\* that set the status failed.
C21_FailedWriteFrame ==
    /\ [][\A id \in DOMAIN db :
            MovedToFailed(id) => \A f \in ContentFields(db[id]) : db'[id][f] = db[id][f]]_vars
    /\ []ErrorOnlyOnFailed

\* C21 amended: a write that moves a job to failed changes no field other than
\* status and error_message, except the failed write of the remote-failure
\* branch of the standard poller, which also sets the generated prompt and
\* nothing else; error_message is set only by writes that set the status
\* failed.
C21_FailedWriteFrameButPrompt ==
    /\ [][\A id \in DOMAIN db :
            MovedToFailed(id) =>
                \A f \in ContentFields(db[id]) :
                    \/ db'[id][f] = db[id][f]
                    \/ /\ f = "video_prompt"
                       /\ pc = "write_remote_failed"
                       /\ db'[id][f] = loc.submitted]_vars
    /\ []ErrorOnlyOnFailed

\* C21 witness: a row moved to failed by the catch-all of a flow still holds
\* the title, user content and reference of its insertion, and no prompt or url.
C21_Witness ==
    /\ variant = "promo"
    /\ pc = "done"
    /\ Len(writes) = 1
    /\ Row.status = "failed"
    /\ Row.error_message = Str(ChatError)
    /\ Row.title = <<"Promo Video">>
    /\ Row.user_content = UserContent
    /\ Row.image_url = reqIn.url
    /\ ~Truthy(Row.video_prompt)
    /\ ~Truthy(Row.video_url)

\* C22: on every completed row of a promo, fashion, ugc or remix job the
\* persisted prompt is the text given to create_video_job / remix_video_job
\* (the QA output, sanitized when the moderation check flagged it; the
\* caller's prompt for a remix), and the persisted url is the url of the
\* object uploaded for this job id.
C22_PersistedPromptIsSubmitted ==
    (variant \in StandardVariants \cup {"remix"} /\ HasRow /\ Row.status = "completed") =>
        /\ Truthy(loc.submitted)
        /\ Row.video_prompt = loc.submitted
        /\ loc.submitted = (IF variant = "remix" THEN <<"remix prompt">>
                            ELSE IF loc.flagged THEN SanitizeOf(loc.qaOut)
                            ELSE loc.qaOut)
        /\ Row.video_url = loc.storageUrl
        /\ IF variant = "remix"
             THEN /\ Row.video_url = <<"ai_videos", "remix_", jobId, ".mp4">>
                  /\ <<"ai_videos", <<"remix_", jobId, ".mp4">> >> \in blobs
             ELSE /\ Row.video_url = <<"ai_videos", jobId, ".mp4">>
                  /\ <<"ai_videos", <<jobId, ".mp4">> >> \in blobs

\* C22 witness: a completed job whose prompt was corrected by QA and then
\* sanitized.
C22_Witness ==
    /\ variant = "fashion"
    /\ HasRow
    /\ Row.status = "completed"
    /\ loc.flagged
    /\ Row.video_prompt = SanitizeOf(FixOf(Assembled))

-----------------------------------------------------------------------------
\* The download endpoint and the local cache

\* the path download_video looks at
DownloadPath(job_id) == <<"outputs/videos", job_id, ".mp4">>

NotFound(detail) == [status_code |-> 404, detail |-> detail, file |-> None]

\* GET /download/{job_id}
download_video(job_id) ==
    IF DownloadPath(job_id) \notin files
      THEN NotFound("Video not found locally")
      ELSE [status_code |-> 200, detail |-> "", file |-> DownloadPath(job_id)]

\* C23: download(jobId) returns the asset whenever the asset of that job is
\* locally cached; after a remix job has completed, its asset is in the local
\* cache and download for its id answers with the asset, not with not-found.
C23_DownloadReturnsCachedAsset ==
    /\ \A id \in JobIds :
         RemixLocalPath(id) \in files => download_video(id).status_code = 200
    /\ (variant = "remix" /\ HasRow /\ Row.status = "completed")
         => download_video(jobId).status_code = 200

-----------------------------------------------------------------------------
\* Stage failures

\* the pipeline stage calls of the promo, fashion and ugc flows
StageCalls == {"concept", "visual", "audio", "assembly", "ugc_master", "image_analysis"}

\* the collaborator calls of a job other than the persistence updates
WorkCalls == SelectSeq(calls, LAMBDA c : c # "update_record")

StageFailed == variant \in StandardVariants /\ loc.failedAt \in StageCalls

\* C24: in the promo, fashion and ugc flows, once a pipeline stage call
\* (concept, visual, audio, assembly, master, image analysis) has failed, the
\* failed call stays the job's last collaborator call (no later stage, QA,
\* moderation, submission or polling call), no file, blob or prompt is
\* persisted, and the first update issued is a failed update carrying the
\* error's message; once accepted it is the job's only update.
C24_StageFailureAborts ==
    StageFailed =>
        /\ WorkCalls[Len(WorkCalls)] = loc.failedAt
        /\ \A c \in {"qa_score", "qa_fix", "moderation_check", "sanitize", "process_image",
                     "create_video_job", "get_video_job_status", "download_video_content",
                     "upload_file", "generate_title"} : Count(calls, c) = 0
        /\ files = {} /\ blobs = {}
        /\ \A k \in 1..Len(writes) : DOMAIN writes[k].data = {"status", "error_message"}
        /\ Row.video_prompt = None /\ Row.video_url = None /\ Row.status # "completed"
        /\ pc = StageFailure => Len(writes) = 0 /\ exc = loc.failedExc
        /\ Len(writes) >= 1 =>
              /\ writes[1].data = FailedData(loc.failedExc)
              /\ writes[1].applied =>
                    /\ pc = "done"
                    /\ Len(writes) = 1
                    /\ Row.status = "failed"
                    /\ Row.error_message = Str(loc.failedExc)

\* C24 witness: a ugc job whose master agent call failed ended with that
\* error as its only write.
C24_Witness ==
    /\ variant = "ugc"
    /\ loc.failedAt = "ugc_master"
    /\ pc = "done"
    /\ Len(writes) = 1
    /\ HasRow /\ Row.status = "failed" /\ Row.error_message = Str(ChatError)

-----------------------------------------------------------------------------
\* Order of the collaborator calls

\* the place of a collaborator call in the promo / fashion sequence; QA
\* scoring and correction share a place, as do the status polls
CallRank(c) ==
    CASE c = "download_image"         -> 0
      [] c = "insert_record"          -> 1
      [] c = "concept"                -> 2
      [] c = "visual"                 -> 3
      [] c = "audio"                  -> 4
      [] c = "assembly"               -> 5
      [] c \in {"qa_score", "qa_fix"} -> 6
      [] c = "moderation_check"       -> 7
      [] c = "sanitize"               -> 8
      [] c = "process_image"          -> 9
      [] c = "create_video_job"       -> 10
      [] c = "get_video_job_status"   -> 11
      [] c = "download_video_content" -> 12
      [] c = "upload_file"            -> 13
      [] c = "generate_title"         -> 14
      [] c = "update_record"          -> 15

Repeatable == {"qa_score", "qa_fix", "get_video_job_status", "update_record"}

\* index of the first call named c
FirstCall(c) == CHOOSE k \in 1..Len(calls) : calls[k] = c /\ \A j \in 1..(k - 1) : calls[j] # c

\* C25: within one promo or fashion job the collaborator calls occur in the
\* order concept, visual direction, audio, assembly, QA scoring/correction,
\* moderation check, (sanitize), createVideoJob, status polls, content
\* download, storage upload, terminal write, none of them skipped;
\* createVideoJob is never called before the moderation check has returned,
\* and no status poll is made before createVideoJob has returned the external
\* job id.
C25_CallOrder ==
    variant \in {"promo", "fashion"} =>
        /\ \A k \in 1..(Len(calls) - 1) :
              \/ CallRank(calls[k]) < CallRank(calls[k + 1])
              \/ /\ CallRank(calls[k]) = CallRank(calls[k + 1])
                 /\ calls[k] \in Repeatable
        /\ \A k \in 2..Len(calls) :
              CallRank(calls[k]) \in 3..7 =>
                  CallRank(calls[k - 1]) \in {CallRank(calls[k]) - 1, CallRank(calls[k])}
        /\ Count(calls, "create_video_job") >= 1 =>
              /\ Count(calls, "moderation_check") = 1
              /\ FirstCall("moderation_check") < FirstCall("create_video_job")
              /\ loc.modOutcome # "none"
              /\ loc.flagged => Count(calls, "sanitize") = 1
        /\ Count(calls, "get_video_job_status") >= 1 =>
              /\ Count(calls, "create_video_job") = 1
              /\ FirstCall("create_video_job") < FirstCall("get_video_job_status")
              /\ Truthy(loc.extJob)
        /\ Count(calls, "download_video_content") >= 1 =>
              /\ Count(calls, "get_video_job_status") >= 1
              /\ loc.status = "completed"
        /\ Count(calls, "upload_file") >= 1 => Count(calls, "download_video_content") = 1

\* C25 witness: a promo job that went through every step, sanitize included,
\* and wrote completed.
C25_Witness ==
    /\ variant = "promo"
    /\ pc = "done"
    /\ HasRow /\ Row.status = "completed"
    /\ \A c \in {"concept", "visual", "audio", "assembly", "qa_score", "qa_fix",
                 "moderation_check", "sanitize", "create_video_job",
                 "get_video_job_status", "download_video_content", "upload_file",
                 "update_record"} : Count(calls, c) >= 1

-----------------------------------------------------------------------------
\* The pending record comes first

\* the calls of the initiating request
InitiationCalls == {"download_image", "insert_record"}

\* where the background task of a job starts
TaskStarts == {"task_start", "remix_start", "image_start"}

\* C27: the insert of the pending record precedes every update on the job's
\* id and every pipeline, QA, moderation, submission or polling call of the
\* job; when the initiating call has returned the job id with status pending,
\* none of those calls has been made and the record is pending.
C27_PendingFirst ==
    /\ \A k \in 1..Len(calls) :
          calls[k] \notin InitiationCalls =>
              /\ \E j \in 1..(k - 1) : calls[j] = "insert_record"
              /\ HasRow
    /\ \A k \in 1..Len(writes) : writes[k].id = jobId /\ HasRow
    /\ pc \notin {"idle", "rejected"} =>
          /\ HasRow
          /\ resp = "pending"
          /\ Count(calls, "insert_record") = 1
    /\ pc \in TaskStarts =>
          /\ resp = "pending"
          /\ \A k \in 1..Len(calls) : calls[k] \in InitiationCalls
          /\ calls[Len(calls)] = "insert_record"
          /\ Len(writes) = 0
          /\ Row.status = "pending"
    /\ resp # "pending" => Len(writes) = 0 /\ ~HasRow

\* C27 witness: the request of a promo job with an image link has been
\* answered pending after the download and the insert, and nothing else.
C27_Witness ==
    /\ variant = "promo"
    /\ pc = "task_start"
    /\ resp = "pending"
    /\ calls = <<"download_image", "insert_record">>
    /\ HasRow /\ Row.status = "pending"

-----------------------------------------------------------------------------
\* The remix poller's dual persistence

\* C28: in the remix poller the asset is written to the local cache path
\* only on remote status completed, before the storage upload, and the
\* upload happens before the completed write; every remix record in status
\* completed has its local cache file, its uploaded blob and the title
\* "Remixed Video", and no title generation call is ever made.
C28_RemixDualPersistence ==
    variant = "remix" =>
        /\ Count(calls, "generate_title") = 0
        /\ Count(calls, "write_local_file") >= 1 =>
              /\ loc.status = "completed"
              /\ Count(calls, "download_video_content") = 1
              /\ FirstCall("download_video_content") < FirstCall("write_local_file")
        /\ Count(calls, "upload_file") >= 1 =>
              /\ Count(calls, "write_local_file") = 1
              /\ FirstCall("write_local_file") < FirstCall("upload_file")
              /\ RemixLocalPath(jobId) \in files
        /\ \A k \in 1..Len(writes) :
              writes[k].data.status = "completed" =>
                  /\ k = 1
                  /\ Count(calls, "upload_file") = 1
                  /\ FirstCall("upload_file") < FirstCall("update_record")
                  /\ RemixLocalPath(jobId) \in files
                  /\ RemixBlob(jobId) \in blobs
                  /\ writes[k].data.title = <<"Remixed Video">>
        /\ (HasRow /\ Row.status = "completed") =>
              /\ RemixLocalPath(jobId) \in files
              /\ RemixBlob(jobId) \in blobs
              /\ Row.title = <<"Remixed Video">>
        /\ files \subseteq {RemixLocalPath(jobId)}
        /\ blobs \subseteq {RemixBlob(jobId)}

\* C28 witness: a completed remix record with its cache file and its blob.
C28_Witness ==
    /\ variant = "remix"
    /\ pc = "done"
    /\ HasRow /\ Row.status = "completed" /\ Row.title = <<"Remixed Video">>
    /\ files = {RemixLocalPath(jobId)}
    /\ blobs = {RemixBlob(jobId)}

-----------------------------------------------------------------------------
\* PersistenceGateway.get and the status endpoint

\* what a call can give: the absent sentinel (None), a record, or an exception
Absent == [kind |-> "absent"]
Found(record) == [kind |-> "record", record |-> record]
Raised(e) == [kind |-> "raised", exc |-> e]

\* the select either answers or raises
BackendOutcomes == {"ok", "error"}

\* "except Exception as e: ...; return None"
GetFailurePropagates(e) == Raised(DatabaseError(<<"Database error: ">> \o Str(e)))
GetFailure(e) == Absent

\* db_service.get_record_by_id(table, record_id)
get_record_by_id(table_name, record_id, backend) ==
    IF backend = "error"
      THEN GetFailure(MkExc("APIError", <<"connection refused">>))
      ELSE IF record_id \in DOMAIN db THEN Found(db[record_id]) ELSE Absent

\* GET /status/{job_id}; an exception of the lookup would leave the endpoint
get_video_status(job_id, backend) ==
    LET record == get_record_by_id("video_assets", job_id, backend)
    IN CASE record.kind = "raised" -> [status_code |-> 500, body |-> Absent]
         [] record.kind = "absent" -> [status_code |-> 404, body |-> Absent]
         [] OTHER                  -> [status_code |-> 200, body |-> record]

\* ids a caller can ask for: those of the jobs, and one no job has
LookupIds == JobIds \cup {"no such job"}

\* C29: PersistenceGateway.get never raises: it returns the record when a row
\* matches, and the absent sentinel both when no row matches and when the
\* backend call fails, so that getStatus answers not-found in both cases (and
\* the record otherwise).
C29_GetNeverRaises ==
    \A id \in LookupIds : \A b \in BackendOutcomes :
        LET got == get_record_by_id("video_assets", id, b)
            ans == get_video_status(id, b)
        IN /\ got.kind # "raised"
           /\ (b = "ok" /\ id \in DOMAIN db) =>
                 /\ got = Found(db[id])
                 /\ ans.status_code = 200 /\ ans.body = Found(db[id])
           /\ (b = "error" \/ id \notin DOMAIN db) =>
                 /\ got = Absent
                 /\ ans.status_code = 404

\* C29 witness: the record of a finished job is returned while the backend
\* answers, and not-found is answered for it when the backend fails and for an
\* id no job has.
C29_Witness ==
    /\ HasRow /\ Row.status = "completed"
    /\ get_video_status(jobId, "ok").body = Found(Row)
    /\ get_video_status(jobId, "error").status_code = 404
    /\ get_video_status("no such job", "ok").status_code = 404

-----------------------------------------------------------------------------
\* QA responses without a parsable JSON object

\* the job's last scoring response held no JSON object
QaUnparsable == loc.qaKind \in {"nojson", "nonobject"}

\* C30: a QA scoring response without a parsable JSON object is not counted as
\* a failing score to be corrected (promo/fashion and ugc): the scoring call
\* raises, no correction, moderation check or submission follows it, and the
\* first update issued is a failed update with the parse error, which ends the
\* job failed once accepted; a parsable response without a score field is
\* treated as score 0, hence as failing.
C30_UnparsableQaFails ==
    variant \in StandardVariants =>
        /\ QaUnparsable =>
              /\ loc.failedAt = "qa_score"
              /\ loc.failedExc = JsonOutcome(loc.qaKind)
              /\ loc.failedExc # NoExc
              /\ WorkCalls[Len(WorkCalls)] = "qa_score"
              /\ Count(calls, "qa_fix") = Count(calls, "qa_score") - 1
              /\ Count(calls, "moderation_check") = 0
              /\ Count(calls, "create_video_job") = 0
              /\ Count(calls, "get_video_job_status") = 0
              /\ Row.status # "completed"
              /\ Len(writes) >= 1 =>
                    /\ writes[1].data = FailedData(JsonOutcome(loc.qaKind))
                    /\ writes[1].applied =>
                          /\ pc = "done"
                          /\ Len(writes) = 1
                          /\ Row.status = "failed"
        /\ (loc.qaKind = "noscore" /\ loc.failedAt # "qa_score") =>
              /\ loc.qaRes.score = 0
              /\ ~loc.qaRes.hasScore
              /\ ~QaPasses(loc.qaRes.score) /\ ~UgcQaPasses(loc.qaRes.score)
              /\ calls[Len(calls)] = "qa_score" =>
                    \/ pc = (IF variant = "ugc" THEN "ugc_qa_fix" ELSE "qa_fix")
                    \/ /\ variant # "ugc"
                       /\ Count(calls, "qa_score") = QaMaxAttempts
                       /\ pc = AfterQa

\* C30 witness: a ugc job whose scoring response held no JSON ended failed
\* with the parse error, without a correction or a moderation check.
C30_Witness ==
    /\ variant = "ugc"
    /\ loc.qaKind = "nojson"
    /\ pc = "done"
    /\ Len(writes) = 1
    /\ HasRow /\ Row.status = "failed" /\ Row.error_message = Str(JsonError)
    /\ Count(calls, "qa_fix") = 0

-----------------------------------------------------------------------------
\* Concurrent jobs

\* the text name holds the job id
Mentions(name, id) == \E k \in 1..Len(name) : name[k] = id

\* a path or object name is derived from the id of the running job, and of
\* no other
OwnName(name) ==
    /\ Mentions(name, jobId)
    /\ \A id \in JobIds \ {jobId} : ~Mentions(name, id)

\* the pending record the initiating call of a job inserted
InsertedRow(v, rq) ==
    CASE v = "remix" ->
           NewRow(VideoFields,
                  DropNone([title |-> <<"Remixed Video">>, user_content |-> <<"remix prompt">>,
                            status |-> "pending", user_id |-> None, image_url |-> rq.url]))
      [] v = "image" ->
           NewRow(ImageFields,
                  DropNone([title |-> <<"Generated Image">>, ref_image_url |-> rq.url,
                            user_content |-> UserContent,
                            status |-> "pending", user_id |-> None]))
      [] OTHER ->
           NewRow(VideoFields,
                  DropNone([title |-> VideoTitle(v), image_url |-> rq.url,
                            user_content |-> UserContent,
                            status |-> "pending", user_id |-> None]))

\* the record after the accepted updates of ws, in order
RECURSIVE Replay(_, _)
Replay(row, ws) ==
    IF ws = <<>>
      THEN row
      ELSE Replay(IF Head(ws).applied THEN Merge(row, Head(ws).data) ELSE row, Tail(ws))

\* the record of job j is what j's own request and j's own updates make it
RowAsAlone(j) ==
    /\ \A k \in 1..Len(j.writes) : j.writes[k].id = j.jobId
    /\ j.jobId \in DOMAIN db =>
          db[j.jobId] = Replay(InsertedRow(j.variant, j.reqIn), j.writes)

\* a step of the running job touches its own record and its own paths only
OwnWritesOnly ==
    /\ \A id \in DOMAIN db :
          /\ id \in DOMAIN db'
          /\ db'[id] # db[id] => id = jobId /\ jobId' = jobId
    /\ \A id \in DOMAIN db' \ DOMAIN db : id = jobId' /\ id # other.jobId
    /\ files \subseteq files' /\ blobs \subseteq blobs'
    /\ \A f \in files' \ files : OwnName(f)
    /\ \A b \in blobs' \ blobs : OwnName(b[2])

-----------------------------------------------------------------------------
\* Ugc: image analysis, its audit and the realism check

\* the audit has answered (approved or not)
Audited == Count(calls, "image_analysis_qa") >= 1 /\ loc.failedAt # "image_analysis_qa"

\* C31: in the ugc flow the image analysis runs at most twice and its audit
\* at most once; when the audit does not approve, the analysis is re-run
\* exactly once, right after the audit and with the audit's feedback, and its
\* result goes to the master agent without a second audit; when the audit
\* approves, the analysis is not re-run.
C31_AnalysisAtMostTwice ==
    variant = "ugc" =>
        /\ Count(calls, "image_analysis") <= 2
        /\ Count(calls, "image_analysis_qa") <= 1
        /\ Count(calls, "image_analysis") = 2 =>
              /\ Audited /\ ~loc.qaValid
              /\ \E k \in 1..(Len(calls) - 2) :
                    /\ calls[k] = "image_analysis"
                    /\ calls[k + 1] = "image_analysis_qa"
                    /\ calls[k + 2] = "image_analysis"
        /\ (Audited /\ loc.qaValid) =>
              /\ Count(calls, "image_analysis") = 1
              /\ loc.productData = ProductData(None)
              /\ pc # "ugc_reanalysis"
        /\ (Audited /\ ~loc.qaValid) =>
              \/ pc = "ugc_reanalysis" /\ Count(calls, "image_analysis") = 1
              \/ Count(calls, "image_analysis") = 2
        /\ (Audited /\ ~loc.qaValid /\ Count(calls, "realism_check") >= 1) =>
              /\ loc.failedAt # "image_analysis"
              /\ loc.productData = ProductData(loc.feedback)
        /\ Count(calls, "ugc_master") >= 1 =>
              /\ Audited
              /\ loc.failedAt # "ugc_master" => loc.masterIn[1] = loc.productData

\* C31 witness: the audit rejected the analysis, the analysis was re-run with
\* the audit's feedback and the master agent received the revision.
C31_Witness ==
    /\ variant = "ugc"
    /\ loc.feedback = <<"label text is wrong">>
    /\ calls = <<"insert_record", "image_analysis", "image_analysis_qa", "image_analysis",
                 "realism_check", "ugc_master">>
    /\ Len(loc.masterIn) = 2
    /\ loc.masterIn[1] = <<"product data", "revised for", "label text is wrong">>

\* C32: in the ugc flow a failure of the realism detection call, or of
\* reading its answer, never aborts the job: whether the call answers real,
\* flags the image or fails, the check is made once, the same guideline text
\* is returned, no update is written for it and the flow goes on to the
\* master agent, which receives that text.
C32_RealismNeverAborts ==
    (variant = "ugc" /\ Count(calls, "realism_check") >= 1) =>
        /\ Count(calls, "realism_check") = 1
        /\ loc.realism \in {"real", "flagged", "failed"}
        /\ loc.guidelines = RealismGuidelines
        /\ calls[Len(calls)] = "realism_check" =>
              /\ pc = "ugc_master"
              /\ exc = NoExc
              /\ Len(writes) = 0
        /\ Count(calls, "ugc_master") >= 1 =>
              /\ \E k \in 1..(Len(calls) - 1) :
                    calls[k] = "realism_check" /\ calls[k + 1] = "ugc_master"
              /\ loc.failedAt # "ugc_master" => loc.masterIn[2] = RealismGuidelines

\* C32 witness: the detection call failed and the job went on to completed.
C32_Witness ==
    /\ variant = "ugc"
    /\ loc.realism = "failed"
    /\ Len(loc.masterIn) = 2
    /\ loc.masterIn[2] = RealismGuidelines
    /\ HasRow /\ Row.status = "completed"

-----------------------------------------------------------------------------
\* The dispatch of process_video_task

\* video_type values: those of the endpoints, and one no endpoint sends
AnyVideoTypes == VideoTypes \cup {"cinematic"}

TaskDispatched == variant \in VideoTypes /\ pc \notin {"idle", "rejected", "task_start"}

\* C33: process_video_task dispatches each job to exactly one flow: fashion
\* to the fashion flow, ugc to the ugc flow, general to the general flow, and
\* every other video_type (promo or unknown) to the promo flow; a job never
\* runs two flows.
C33_DispatchToOneFlow ==
    /\ \A vt \in AnyVideoTypes :
          Dispatch(vt) = (IF vt \in {"fashion", "ugc", "general"} THEN vt ELSE "promo")
    /\ Len(loc.flows) <= 1
    /\ TaskDispatched => loc.flows = <<Dispatch(variant)>>

-----------------------------------------------------------------------------
\* The image flow

\* the steps of the image flow between the two writes, in their order
ImageSteps ==
    <<"refine_prompt", "generate_image", "generate_title", "download_image", "upload_file">>

\* the calls of the job other than the insert and the updates
ImageWork == SelectSeq(calls, LAMBDA c : c \notin {"insert_record", "update_record"})

\* every step of the image flow was made once, in order, and succeeded
ImageStepsSucceeded ==
    /\ ImageWork = ImageSteps
    /\ loc.failedAt = "none"
    /\ loc.final = <<"refined prompt">>
    /\ Truthy(loc.imageUrl)
    /\ loc.title = <<"catchy title">>
    /\ <<"ai_images", <<jobId, ".png">> >> \in blobs

\* C34: an image job reaches completed only after prompt refinement, image
\* generation, title generation, result download and storage upload have all
\* succeeded, in that order; a failure of any of them, title generation and a
\* provider without a result url included, sends the job to the flow's
\* handler, whose failed update ends the job failed once accepted: the title
\* is not best-effort here.
C34_ImageCompletedOnlyAfterAllSteps ==
    variant = "image" =>
        /\ \A k \in 1..Len(ImageWork) : k <= 5 /\ ImageWork[k] = ImageSteps[k]
        /\ \A k \in 1..Len(writes) :
              writes[k].data.status = "completed" =>
                  /\ ImageStepsSucceeded
                  /\ writes[k].data.title = <<"catchy title">>
        /\ (HasRow /\ Row.status = "completed") =>
              /\ ImageStepsSucceeded
              /\ Row.title = <<"catchy title">>
        /\ loc.failedAt \in {"refine_prompt", "generate_title"} =>
              /\ ImageWork[Len(ImageWork)] = loc.failedAt
              /\ \A k \in 1..Len(writes) : writes[k].data.status # "completed"
              /\ Len(writes) >= 2 => writes[2].data = FailedData(ChatError)
        /\ (Count(calls, "generate_image") = 1 /\ pc # "img_title" /\ ~Truthy(loc.imageUrl)) =>
              /\ Count(calls, "upload_file") = 0
              /\ \A k \in 1..Len(writes) : writes[k].data.status # "completed"
        /\ (pc \notin {"image_start", "img_reassert"} /\ ~ImageStepsSucceeded
              /\ Len(ImageWork) >= 1 /\ pc \notin {"img_refine", "img_generate", "img_title",
                                                   "img_download", "img_upload"}) =>
              /\ pc = "img_except" => exc # NoExc
              /\ Len(writes) >= 2 =>
                    /\ writes[2].data.status = "failed"
                    /\ writes[2].applied =>
                          /\ pc = "done"
                          /\ Len(writes) = 2
                          /\ Row.status = "failed"

\* C34 witness: the title call of an image job failed after a successful
\* generation and the job ended failed with that error.
C34_Witness ==
    /\ variant = "image"
    /\ loc.failedAt = "generate_title"
    /\ Truthy(loc.imageUrl)
    /\ pc = "done"
    /\ HasRow /\ Row.status = "failed" /\ Row.error_message = Str(ChatError)

\* ---------------------------------------------------------------------------
\* poll_video_job (api/v1/endpoints/video.py): the status loop of the direct
\* video endpoint.  Time is counted in seconds.
\* ---------------------------------------------------------------------------

VpTimeout == 6          \* largest value of the timeout parameter drawn
VpHorizon == 14         \* the clock is not followed beyond this value
VpMaxRequestDur == 1    \* longest duration of one status request
VpRetrySleep == 2       \* asyncio.sleep(2) after a transport error
VpPollSleep == 5        \* asyncio.sleep(5) after a non-terminal status

\* what one status request can give: a status of the job, or an exception
\* of client.get / raise_for_status
VpStatuses == {"queued", "in_progress", "completed", "failed", "failed_blocked"}
VpTransportErrors == {"ReadTimeout", "RequestError"}
VpOutcomes == VpStatuses \cup VpTransportErrors \cup {"HTTPStatusError"}

VpEnded == {"returned", "raised"}

VpInit ==
    /\ NoJob
    /\ rr = RrIdle
    /\ bj = BjIdle
    /\ \E t \in 1..VpTimeout :
        vp = [pc |-> "request", timeout |-> t, elapsed |-> 0, requests |-> 0,
              result |-> "none"]

VpEnd(d, how, what) ==
    vp' = [vp EXCEPT !.pc = how, !.elapsed = @ + d, !.requests = @ + 1, !.result = what]

\* one pass of the loop body up to its sleep
VpRequest ==
    /\ vp.pc = "request"
    /\ vp.elapsed < VpHorizon
    /\ \E o \in VpOutcomes, d \in 0..VpMaxRequestDur :
        CASE o \in VpTransportErrors ->
                vp' = [vp EXCEPT !.pc = "retry_sleep", !.elapsed = @ + d,
                                 !.requests = @ + 1]
          [] o = "HTTPStatusError" -> VpEnd(d, "raised", "HTTPStatusError")
          [] o = "completed" -> VpEnd(d, "returned", "None")
          [] o = "failed_blocked" -> VpEnd(d, "raised", "Moderation BLocked")
          [] o = "failed" -> VpEnd(d, "raised", "Video generation failed")
          [] OTHER ->
                IF vp.elapsed + d > vp.timeout
                THEN VpEnd(d, "raised", "Video generation timed out")
                ELSE vp' = [vp EXCEPT !.pc = "sleep", !.elapsed = @ + d,
                                      !.requests = @ + 1]
    /\ UNCHANGED <<jobs, rr, bj>>

\* except httpx.ReadTimeout / httpx.RequestError: sleep and continue
VpRetry ==
    /\ vp.pc = "retry_sleep"
    /\ vp' = [vp EXCEPT !.pc = "request", !.elapsed = @ + VpRetrySleep]
    /\ UNCHANGED <<jobs, rr, bj>>

VpSleep ==
    /\ vp.pc = "sleep"
    /\ vp' = [vp EXCEPT !.pc = "request", !.elapsed = @ + VpPollSleep]
    /\ UNCHANGED <<jobs, rr, bj>>

VpNext ==
    \/ VpRequest
    \/ VpRetry
    \/ VpSleep

SpecPollVideoJob == VpInit /\ [][VpNext]_vars

\* C35: poll_video_job ends once the elapsed time exceeds its timeout, whatever
\* the status requests give: a status request that is over after the timeout
\* is the last one, the function returns or raises at its end.
C35_PollVideoJobEndsAfterTimeout ==
    [][(vp.pc = "request" /\ vp'.elapsed > vp.timeout) => vp'.pc \in VpEnded]_vars


\* ---------------------------------------------------------------------------
\* request_with_retry (core/utils.py): requests.request in a retry loop.
\* ---------------------------------------------------------------------------

RrMaxRetries == 4       \* largest value of the max_retries parameter drawn

\* what one requests.request call can give: a response with some HTTP status,
\* a requests.exceptions.RequestException, or an exception of another class
RrStatuses == {"200", "404", "500"}
RrRequestExceptions == {"ConnectionError", "Timeout"}
RrOtherExceptions == {"TypeError"}
RrOutcomes == RrStatuses \cup RrRequestExceptions \cup RrOtherExceptions

RrKind(o) ==
    IF o \in RrStatuses THEN "response"
    ELSE IF o \in RrRequestExceptions THEN "RequestException"
    ELSE "other"

RrEnded == {"returned", "raised"}

RrInit ==
    /\ NoJob
    /\ vp = VpIdle
    /\ bj = BjIdle
    /\ \E n \in 0..RrMaxRetries :
        rr = [pc |-> "attempt", max_retries |-> n, i |-> 0, attempts |-> <<>>,
              sleeps |-> <<>>, result |-> "none"]

\* if i == max_retries - 1: raise e
RrLastAttemptNever(i, max_retries) == FALSE
RrLastAttempt(i, max_retries) == i = max_retries - 1

\* one pass of the for body: the request, and the except clause up to its sleep
RrAttempt ==
    /\ rr.pc = "attempt"
    /\ rr.i < rr.max_retries
    /\ \E o \in RrOutcomes :
        LET a == [kind |-> RrKind(o), val |-> o, at |-> rr.i + 1]
            made == [rr EXCEPT !.attempts = Append(@, a)]
        IN  CASE a.kind = "response" ->
                    rr' = [made EXCEPT !.pc = "returned", !.result = a]
              [] a.kind = "other" ->
                    rr' = [made EXCEPT !.pc = "raised", !.result = a]
              [] OTHER ->
                    IF RrLastAttempt(rr.i, rr.max_retries)
                    THEN rr' = [made EXCEPT !.pc = "raised", !.result = a]
                    ELSE rr' = [made EXCEPT !.pc = "sleep"]
    /\ UNCHANGED <<jobs, vp, bj>>

\* time.sleep(2 ** i), then the next i
RrSleep ==
    /\ rr.pc = "sleep"
    /\ rr' = [rr EXCEPT !.pc = "attempt", !.sleeps = Append(@, 2 ^ rr.i), !.i = @ + 1]
    /\ UNCHANGED <<jobs, vp, bj>>

\* the loop is over: raise Exception("Request failed after retries")
RrExhausted ==
    /\ rr.pc = "attempt"
    /\ rr.i >= rr.max_retries
    /\ rr' = [rr EXCEPT !.pc = "raised",
                        !.result = [kind |-> "other", val |-> "Request failed after retries",
                                    at |-> 0]]
    /\ UNCHANGED <<jobs, vp, bj>>

RrNext ==
    \/ RrAttempt
    \/ RrSleep
    \/ RrExhausted

SpecRequestWithRetry == RrInit /\ [][RrNext]_vars

RrAllTransport ==
    \A k \in 1..Len(rr.attempts) : rr.attempts[k].kind = "RequestException"

\* C36: with max_retries = n >= 1 request_with_retry makes at most n attempts,
\* each but the last one ended by a transport exception; it returns the first
\* response whatever its status and attempts nothing more; when all n attempts
\* raise it raises the exception of the n-th; it has slept once between two
\* attempts and never after the last one.
C36_RetryBounded ==
    rr.max_retries >= 1 =>
        LET n == rr.max_retries
            made == Len(rr.attempts)
        IN  /\ made <= n
            /\ \A k \in 1..(made - 1) : rr.attempts[k].kind = "RequestException"
            /\ \A k \in 1..made : rr.attempts[k].at = k
            /\ rr.pc = "returned" <=>
                    (made >= 1 /\ rr.attempts[made].kind = "response")
            /\ rr.pc = "returned" => rr.result = rr.attempts[made]
            /\ (made = n /\ RrAllTransport) =>
                    (rr.pc = "raised" /\ rr.result = rr.attempts[n])
            /\ (rr.pc = "raised" /\ RrAllTransport) => made = n
            /\ Len(rr.sleeps) = (IF rr.pc = "attempt" THEN made
                                 ELSE made - 1)
            /\ \A k \in 1..Len(rr.sleeps) : rr.sleeps[k] = 2 ^ (k - 1)

\* all attempts of a call with several retries failed, and the last one's
\* exception came out
C36_Witness ==
    /\ rr.max_retries >= 3
    /\ rr.pc = "raised"
    /\ Len(rr.attempts) = rr.max_retries
    /\ RrAllTransport
    /\ rr.attempts[1].val # rr.attempts[rr.max_retries].val
    /\ rr.result = rr.attempts[rr.max_retries]
    /\ Len(rr.sleeps) = rr.max_retries - 1


\* ---------------------------------------------------------------------------
\* _extract_balanced_json (core/utils.py): the scan for the end of the object
\* that starts at start_index.  A text is a sequence of characters; positions
\* count from 1 here (from 0 in the source).
\* ---------------------------------------------------------------------------

BjMaxLen == 5           \* longest text drawn

BjChars == {"{", "}", "\"", "\\", "a"}
BjTexts == UNION {[1..n -> BjChars] : n \in 1..BjMaxLen}

\* the function is called with the position of a '{' (extract_json_from_text)
BjInit ==
    /\ NoJob
    /\ vp = VpIdle
    /\ rr = RrIdle
    /\ \E t \in BjTexts : \E s \in 1..Len(t) :
        /\ t[s] = "{"
        /\ bj = [pc |-> "scan", text |-> t, start_index |-> s, i |-> s, brace_count |-> 0,
                 in_string |-> FALSE, escape |-> FALSE, result |-> None]

\* if char == '"' and not escape: in_string = not in_string
BjInString(char, in_string, escape) ==
    IF char = "\"" /\ ~escape THEN ~in_string ELSE in_string

\* if not in_string: braces are counted
BjCountsAlways(in_string) == TRUE
BjCounts(in_string) == ~in_string

BjBraceCount(char, counts, brace_count) ==
    IF counts /\ char = "{" THEN brace_count + 1
    ELSE IF counts /\ char = "}" THEN brace_count - 1
    ELSE brace_count

\* if char == '\\': escape = not escape, else: escape = False
BjEscape(char, escape) ==
    IF char = "\\" THEN ~escape ELSE FALSE

\* one pass of the for body
BjStep ==
    /\ bj.pc = "scan"
    /\ bj.i <= Len(bj.text)
    /\ LET char == bj.text[bj.i]
           in_string == BjInString(char, bj.in_string, bj.escape)
           counts == BjCounts(in_string)
           brace_count == BjBraceCount(char, counts, bj.brace_count)
       IN  IF counts /\ char = "}" /\ brace_count = 0
           THEN bj' = [bj EXCEPT !.pc = "returned", !.in_string = in_string,
                                 !.brace_count = brace_count,
                                 !.result = SubSeq(bj.text, bj.start_index, bj.i)]
           ELSE bj' = [bj EXCEPT !.i = @ + 1, !.in_string = in_string,
                                 !.brace_count = brace_count,
                                 !.escape = BjEscape(char, bj.escape)]
    /\ UNCHANGED <<jobs, vp, rr>>

\* the loop is over: return None
BjEnd ==
    /\ bj.pc = "scan"
    /\ bj.i > Len(bj.text)
    /\ bj' = [bj EXCEPT !.pc = "returned", !.result = None]
    /\ UNCHANGED <<jobs, vp, rr>>

BjNext ==
    \/ BjStep
    \/ BjEnd

SpecExtractBalancedJson == BjInit /\ [][BjNext]_vars

\* What the text says, position by position, from position s on.  A quote is
\* escaped when an odd number of backslashes stands right before it; the
\* quotes that are not escaped delimit the string literals.
BackslashRun(t, s, k) ==
    Cardinality({j \in s..(k - 1) : \A m \in j..(k - 1) : t[m] = "\\"})

Delimiter(t, s, k) == t[k] = "\"" /\ BackslashRun(t, s, k) % 2 = 0

InLiteral(t, s, k) == Cardinality({j \in s..(k - 1) : Delimiter(t, s, j)}) % 2 = 1

Depth(t, s, k) ==
    Cardinality({j \in s..k : t[j] = "{" /\ ~InLiteral(t, s, j)})
        - Cardinality({j \in s..k : t[j] = "}" /\ ~InLiteral(t, s, j)})

\* the ends k of the substrings s..k whose braces outside literals match
BalancedEnds(t, s) ==
    {k \in s..Len(t) : Depth(t, s, k) = 0 /\ \A j \in s..k : Depth(t, s, j) >= 0}

ShortestBalanced(t, s) ==
    IF BalancedEnds(t, s) = {} THEN None
    ELSE SubSeq(t, s, CHOOSE k \in BalancedEnds(t, s) : \A j \in BalancedEnds(t, s) : k <= j)

\* C37: called at a '{', _extract_balanced_json returns the shortest substring
\* from there whose braces outside string literals match, and None when the
\* text has none; braces inside double-quoted literals do not count and an
\* escaped quote (one after an odd run of backslashes) does not end a literal.
\* The scan never leaves the text before it returns.
C37_ShortestBalancedObject ==
    /\ bj.pc = "returned" => bj.result = ShortestBalanced(bj.text, bj.start_index)
    /\ bj.pc = "scan" => bj.i \in bj.start_index..(Len(bj.text) + 1)

\* the scan of  {"}"}  from its first character: the '}' inside the literal did not end
\* the object, the one after it did
C37_Witness ==
    /\ bj.pc = "returned"
    /\ bj.text = <<"{", "\"", "}", "\"", "}">>
    /\ bj.result = bj.text

\* the scan of  {"\"  : the escaped quote did not end the literal, no object
C37_WitnessEscaped ==
    /\ bj.pc = "returned"
    /\ bj.text = <<"{", "\"", "\\", "\"", "}">>
    /\ bj.result = None

=============================================================================
